---------------------------- MODULE Spec2Model ----------------------------
(***************************************************************************)
(* Combat and AI simulation core of the two game variants of the          *)
(* repository:                                                             *)
(*   "2d"  src/batman_arkham_2d.py       (no lives, one list of enemies)   *)
(*   "sh"  src/batman_arkham_shadows.py  (lives and respawn, a villain     *)
(*                                        and a list of henchmen)          *)
(* One variable, variant, says which program a behaviour is a run of.      *)
(*                                                                         *)
(* Units.  Positions, velocities and accelerations are Python floats in    *)
(* the source.  Here they are fixed-point integers in 1/100 pixel (per     *)
(* tick), which is exact for every constant of the source (0.8, 2.5,      *)
(* 1.75, 3.25, ...) ; the two products that need more digits (the         *)
(* friction vx * 0.8 and a speed of 3.25 halved) are truncated to 1/100   *)
(* pixel.  Sizes, ranges, health, damage, timers and scores are the        *)
(* source's integers.  Rendering, audio, the camera offset and the         *)
(* animation frame are not part of the state.                              *)
(***************************************************************************)
EXTENDS Integers, Sequences, FiniteSets, TLC

VARIABLES
    variant,      \* "2d" or "sh": which of the two programs runs
    state,        \* Game.state: title, level_intro, playing, paused, game_over
    won,          \* Game.won
    level,        \* Game.current_level_index (2d) / Game.current_level (sh)
    intro_timer,  \* Game.level_intro_timer (2d) / Game.intro_timer (sh)
    player,       \* Game.player: a Player record, or NoPlayer before the first level
    villain,      \* sh: Game.villain, a Villain record; 2d: NoVillain
    enemies,      \* 2d: Game.enemies (henchmen, then the boss); sh: Game.henchmen
    projectiles,  \* Game.projectiles
    pickups,      \* Game.pickups
    configs,      \* sh: the module-level VILLAIN_CONFIGS table (its mutable fields)
    ticks,        \* number of updates taken so far (bounds the exploration)
    obs           \* what the last step did (observation only, never read by the game)

vars == <<variant, state, won, level, intro_timer, player, villain, enemies,
          projectiles, pickups, configs, ticks, obs>>

-----------------------------------------------------------------------------
(* Bounds of the exploration. *)

\* updates explored from an initial state
MaxTicks == 1
\* henchmen spawned by start_level (the source spawns 6 to 12)
MaxHenchmen == 1
\* key events handled between two updates
MaxEvents == 1

-----------------------------------------------------------------------------
(* Arithmetic helpers. *)

Px(n) == n * 100

Abs(n) == IF n < 0 THEN -n ELSE n

Min(a, b) == IF a < b THEN a ELSE b

Max(a, b) == IF a > b THEN a ELSE b

\* int(): Python truncates toward zero; pygame.Rect does the same to float
\* coordinates.  The result is in whole pixels.
Trunc(v) == IF v >= 0 THEN v \div 100 ELSE -((-v) \div 100)

\* v * num / den truncated toward zero to 1/100 px
Scale(v, num, den) == IF v >= 0 THEN (v * num) \div den ELSE -(((-v) * num) \div den)

Sign(n) == IF n > 0 THEN 1 ELSE IF n < 0 THEN -1 ELSE 0

\* math.sqrt(dx*dx + dy*dy) < r, r in pixels, dx and dy in 1/100 px.
\* Compared in 1/10 px so that the squares stay within 32 bits.
DistLess(dx, dy, r) ==
    /\ Abs(dx) < Px(r)
    /\ Abs(dy) < Px(r)
    /\ (dx \div 10) * (dx \div 10) + (dy \div 10) * (dy \div 10) < (r * 10) * (r * 10)

\* math.sqrt(dx*dx + dy*dy) > r
DistMore(dx, dy, r) ==
    \/ Abs(dx) > Px(r)
    \/ Abs(dy) > Px(r)
    \/ (dx \div 10) * (dx \div 10) + (dy \div 10) * (dy \div 10) > (r * 10) * (r * 10)

\* pygame.Rect(x, y, w, h) with float x, y (1/100 px) and integer w, h (px)
Rect(x, y, w, h) == [x |-> Trunc(x), y |-> Trunc(y), w |-> w, h |-> h]

NoRect == [x |-> 0, y |-> 0, w |-> 0, h |-> 0]

\* pygame.Rect.colliderect: the rectangles overlap with positive area
colliderect(a, b) ==
    /\ a.w > 0 /\ a.h > 0 /\ b.w > 0 /\ b.h > 0
    /\ a.x < b.x + b.w
    /\ b.x < a.x + a.w
    /\ a.y < b.y + b.h
    /\ b.y < a.y + a.h

-----------------------------------------------------------------------------
(* Configuration of the two programs. *)

CONFIG_2D == [GRAVITY |-> 80, GROUND_LEVEL |-> 550, LEVEL_WIDTH |-> 8000]

CONFIG_SH == [GRAVITY |-> 80, GROUND_LEVEL |-> 580, LEVEL_WIDTH |-> 6000]

CONFIG(g) == IF g = "sh" THEN CONFIG_SH ELSE CONFIG_2D

\* Batman's statistics.  PUNCH_DURATION, KICK_DURATION and BATARANG_DURATION are
\* the literals of punch(), kick() and throw_batarang(); WIDTH and HEIGHT those
\* of Player.__init__; RECT_INSET the vertical inset of get_attack_rect.  Speeds
\* are in 1/100 px per tick.
\* COMBO_DAMAGE_BONUS and MAX_COMBO_MULTIPLIER are in 1/100 (0.15 and 2.5).
PLAYER_STATS_2D ==
    [MAX_HEALTH |-> 120, MAX_LIVES |-> 0,
     MOVE_SPEED |-> 700, JUMP_POWER |-> -1900, DOUBLE_JUMP_POWER |-> -1600,
     MAX_JUMPS |-> 2,
     PUNCH_DAMAGE |-> 35, KICK_DAMAGE |-> 45, BATARANG_DAMAGE |-> 20,
     PUNCH_RANGE |-> 70, KICK_RANGE |-> 85,
     BATARANG_SPEED |-> 1800, BATARANG_MAX_DISTANCE |-> 600,
     PUNCH_COOLDOWN |-> 12, KICK_COOLDOWN |-> 20, BATARANG_COOLDOWN |-> 35,
     HIT_INVINCIBILITY |-> 60, COMBO_WINDOW |-> 100,
     COMBO_DAMAGE_BONUS |-> 15, MAX_COMBO_MULTIPLIER |-> 250,
     RESPAWN_INVINCIBILITY |-> 0,
     PUNCH_DURATION |-> 15, KICK_DURATION |-> 20, BATARANG_DURATION |-> 10,
     WIDTH |-> 50, HEIGHT |-> 80, RECT_INSET |-> 20]

PLAYER_STATS_SH ==
    [MAX_HEALTH |-> 150, MAX_LIVES |-> 3,
     MOVE_SPEED |-> 700, JUMP_POWER |-> -1900, DOUBLE_JUMP_POWER |-> -1600,
     MAX_JUMPS |-> 2,
     PUNCH_DAMAGE |-> 35, KICK_DAMAGE |-> 45, BATARANG_DAMAGE |-> 25,
     PUNCH_RANGE |-> 75, KICK_RANGE |-> 90,
     BATARANG_SPEED |-> 1800, BATARANG_MAX_DISTANCE |-> 600,
     PUNCH_COOLDOWN |-> 10, KICK_COOLDOWN |-> 18, BATARANG_COOLDOWN |-> 30,
     HIT_INVINCIBILITY |-> 45, COMBO_WINDOW |-> 100,
     COMBO_DAMAGE_BONUS |-> 15, MAX_COMBO_MULTIPLIER |-> 250,
     RESPAWN_INVINCIBILITY |-> 120,
     PUNCH_DURATION |-> 12, KICK_DURATION |-> 16, BATARANG_DURATION |-> 8,
     WIDTH |-> 60, HEIGHT |-> 95, RECT_INSET |-> 15]

PLAYER_STATS(g) == IF g = "sh" THEN PLAYER_STATS_SH ELSE PLAYER_STATS_2D

-----------------------------------------------------------------------------
(* sh: the seven villains.  speed is in 1/100 px per tick, aggression in    *)
(* 1/100.                                                                   *)

VILLAIN_ORDER ==
    <<"twoface", "joker", "penguin", "scarecrow", "croc", "bane", "deathstroke">>

VillainConfig(h, d, sp, ar, ac, w, ht, blk, ddg, ctr, prj, pd, spc, sd, ph, ag, sv, nh) ==
    [health |-> h, damage |-> d, speed |-> sp, attack_range |-> ar,
     attack_cooldown |-> ac, width |-> w, height |-> ht,
     can_block |-> blk, can_dodge |-> ddg, can_counter |-> ctr,
     has_projectile |-> prj, projectile_damage |-> pd,
     has_special |-> spc, special_damage |-> sd,
     phases |-> ph, aggression |-> ag, score_value |-> sv, num_henchmen |-> nh]

VILLAIN_CONFIGS ==
    [t \in {"twoface", "joker", "penguin", "scarecrow", "croc", "bane", "deathstroke"} |->
       CASE t = "twoface" ->
              VillainConfig(500, 25, 350, 80, 40, 70, 100,
                            TRUE, FALSE, FALSE, TRUE, 18, FALSE, 0, 1, 60, 5000, 8)
         [] t = "joker" ->
              VillainConfig(550, 22, 400, 75, 35, 65, 100,
                            FALSE, TRUE, FALSE, TRUE, 15, TRUE, 0, 1, 70, 6000, 10)
         [] t = "penguin" ->
              VillainConfig(450, 20, 250, 120, 45, 70, 85,
                            FALSE, FALSE, FALSE, TRUE, 20, FALSE, 0, 1, 50, 5500, 10)
         [] t = "scarecrow" ->
              VillainConfig(480, 24, 380, 90, 38, 65, 105,
                            FALSE, TRUE, FALSE, TRUE, 12, TRUE, 30, 1, 65, 6000, 9)
         [] t = "croc" ->
              VillainConfig(900, 45, 220, 100, 55, 90, 120,
                            TRUE, FALSE, FALSE, FALSE, 0, TRUE, 60, 1, 80, 7000, 6)
         [] t = "bane" ->
              VillainConfig(1000, 50, 250, 110, 50, 95, 125,
                            TRUE, FALSE, FALSE, FALSE, 0, TRUE, 70, 2, 85, 8000, 7)
         [] OTHER ->
              VillainConfig(850, 40, 550, 100, 25, 75, 105,
                            TRUE, TRUE, TRUE, TRUE, 25, FALSE, 0, 3, 95, 10000, 12)]

\* Henchman.__init__ (sh).  max_health is 60 + hash(name) % 40, and Python
\* salts the hash of a string per process: any value in 60..99.
HENCHMAN_SH ==
    [damage |-> 12, speed |-> 250, attack_range |-> 55, score_value |-> 150,
     width |-> 45, height |-> 75, attack_cooldown |-> 50, attack_frames |-> 12,
     min_health |-> 60, max_health |-> 99]

-----------------------------------------------------------------------------
(* 2d: the enemy types and the five levels. *)

EnemyConfig(boss, h, d, sp, ar, ac, w, ht, blk, ddg, prj, pd, ps, ag, sv) ==
    [is_boss |-> boss, health |-> h, damage |-> d, speed |-> sp,
     attack_range |-> ar, attack_cooldown |-> ac, width |-> w, height |-> ht,
     can_block |-> blk, can_dodge |-> ddg, has_projectile |-> prj,
     projectile_damage |-> pd, projectile_speed |-> ps,
     aggression |-> ag, patrol_range |-> 200, score_value |-> sv]

EnemyTypes ==
    {"joker", "bane", "scarecrow", "twoface", "deathstroke", "joker_thug",
     "bane_mercenary", "scarecrow_thug", "twoface_goon", "deathstroke_soldier"}

ENEMY_CONFIGS ==
    [t \in EnemyTypes |->
       CASE t = "joker" ->
              EnemyConfig(TRUE, 500, 25, 350, 80, 40, 60, 90,
                          FALSE, TRUE, TRUE, 15, 1000, 70, 5000)
         [] t = "bane" ->
              EnemyConfig(TRUE, 800, 40, 200, 100, 60, 80, 110,
                          TRUE, FALSE, FALSE, 0, 0, 90, 6000)
         [] t = "scarecrow" ->
              EnemyConfig(TRUE, 450, 22, 350, 85, 35, 60, 95,
                          FALSE, TRUE, TRUE, 15, 800, 65, 4500)
         [] t = "twoface" ->
              EnemyConfig(TRUE, 550, 30, 350, 75, 45, 60, 90,
                          TRUE, FALSE, TRUE, 18, 1200, 80, 5500)
         [] t = "deathstroke" ->
              EnemyConfig(TRUE, 750, 38, 550, 95, 25, 70, 100,
                          TRUE, TRUE, TRUE, 20, 1500, 95, 8000)
         [] t = "joker_thug" ->
              EnemyConfig(FALSE, 60, 10, 250, 50, 45, 50, 80,
                          FALSE, FALSE, FALSE, 0, 0, 40, 100)
         [] t = "bane_mercenary" ->
              EnemyConfig(FALSE, 100, 15, 200, 60, 50, 50, 80,
                          TRUE, FALSE, FALSE, 0, 0, 60, 150)
         [] t = "scarecrow_thug" ->
              EnemyConfig(FALSE, 55, 10, 300, 50, 40, 50, 80,
                          FALSE, FALSE, TRUE, 8, 800, 55, 120)
         [] t = "twoface_goon" ->
              EnemyConfig(FALSE, 70, 12, 250, 55, 42, 50, 80,
                          FALSE, FALSE, FALSE, 0, 0, 55, 130)
         [] OTHER ->
              EnemyConfig(FALSE, 90, 20, 420, 65, 32, 50, 80,
                          FALSE, TRUE, TRUE, 12, 1400, 75, 200)]

LEVEL_CONFIGS ==
    << [boss_type |-> "joker", henchman_types |-> {"joker_thug"}, num_henchmen |-> 8],
       [boss_type |-> "bane", henchman_types |-> {"bane_mercenary"}, num_henchmen |-> 6],
       [boss_type |-> "scarecrow", henchman_types |-> {"scarecrow_thug"}, num_henchmen |-> 10],
       [boss_type |-> "twoface", henchman_types |-> {"twoface_goon", "scarecrow_thug"},
        num_henchmen |-> 8],
       [boss_type |-> "deathstroke", henchman_types |-> {"deathstroke_soldier"},
        num_henchmen |-> 12] >>

\* number of levels of the running program
NumLevels(g) == IF g = "sh" THEN Len(VILLAIN_ORDER) ELSE Len(LEVEL_CONFIGS)

-----------------------------------------------------------------------------
(* Projectile. *)

\* Projectile.__init__; the spin angle is cosmetic and left out
Projectile(x, y, vx, vy, damage, from_player, max_dist) ==
    [x |-> x, y |-> y, vx |-> vx, vy |-> vy, damage |-> damage,
     from_player |-> from_player, max_dist |-> max_dist,
     traveled |-> 0, active |-> TRUE]

\* Projectile.update deactivating already when the range is reached
ProjectileUpdate_AtRange(p) ==
    IF ~p.active THEN p
    ELSE LET t == p.traveled + Abs(p.vx) IN
         [p EXCEPT !.x = p.x + p.vx,
                   !.y = p.y + p.vy,
                   !.traveled = t,
                   !.active = ~(t >= Px(p.max_dist))]

\* Projectile.update
ProjectileUpdate(p) ==
    IF ~p.active THEN p
    ELSE LET t == p.traveled + Abs(p.vx) IN
         [p EXCEPT !.x = p.x + p.vx,
                   !.y = p.y + p.vy,
                   !.traveled = t,
                   !.active = ~(t > Px(p.max_dist))]

\* Projectile.get_rect
ProjectileRect(p) == Rect(p.x - Px(10), p.y - Px(5), 20, 10)

-----------------------------------------------------------------------------
(* Entity: what Player, Enemy, Villain and Henchman share. *)

\* Entity.get_rect
get_rect(e) == Rect(e.x, e.y, e.width, e.height)

\* Entity.is_on_ground
is_on_ground(g, e) == e.y + Px(e.height) >= Px(CONFIG(g).GROUND_LEVEL)

\* Entity.apply_gravity: the new vertical velocity
apply_gravity(g, e) == Min(e.vy + CONFIG(g).GRAVITY, Px(20))

\* Entity.take_damage without its clamp of the health at 0 (the variant C1
\* is tested against)
EntityApplyDamage_Unclamped(e, amount, knockback_dir) ==
    LET h == e.health - amount IN
    [e EXCEPT !.health = h,
              !.invincibility = 30,
              !.vx = knockback_dir * Px(5),
              !.state = IF h <= 0 THEN "DEAD" ELSE @]

\* Entity.take_damage past its invincibility test, with an invincibility
\* shorter than a melee attack (the variant C27 is tested against)
EntityApplyDamage_Brief(e, amount, knockback_dir) ==
    LET h == e.health - amount IN
    [e EXCEPT !.health = IF h <= 0 THEN 0 ELSE h,
              !.invincibility = 10,
              !.vx = knockback_dir * Px(5),
              !.state = IF h <= 0 THEN "DEAD" ELSE @]

\* Entity.take_damage, after its invincibility test
EntityApplyDamage(e, amount, knockback_dir) ==
    LET h == e.health - amount IN
    [e EXCEPT !.health = IF h <= 0 THEN 0 ELSE h,
              !.invincibility = 30,
              !.vx = knockback_dir * Px(5),
              !.state = IF h <= 0 THEN "DEAD" ELSE @]

\* Entity.take_damage
EntityTakeDamage(e, amount, knockback_dir) ==
    IF e.invincibility > 0 THEN e
    ELSE EntityApplyDamage(e, amount, knockback_dir)

-----------------------------------------------------------------------------
(* Player. *)

\* Player.__init__.  lives and last_safe_x/y exist in sh only; anim_timer
\* is kept for sh, where it decides when the checkpoint is taken.
Player(g, x, y) ==
    [x |-> x, y |-> y, width |-> PLAYER_STATS(g).WIDTH, height |-> PLAYER_STATS(g).HEIGHT,
     vx |-> 0, vy |-> 0, facing_right |-> TRUE, state |-> "IDLE",
     health |-> PLAYER_STATS(g).MAX_HEALTH, max_health |-> PLAYER_STATS(g).MAX_HEALTH,
     invincibility |-> 0, current_attack |-> "NONE", attack_duration |-> 0,
     lives |-> PLAYER_STATS(g).MAX_LIVES,
     jumps_left |-> PLAYER_STATS(g).MAX_JUMPS,
     combo |-> 0, combo_timer |-> 0, score |-> 0,
     punch_cd |-> 0, kick_cd |-> 0, batarang_cd |-> 0,
     last_safe_x |-> IF g = "sh" THEN x ELSE 0,
     last_safe_y |-> IF g = "sh" THEN y ELSE 0,
     anim_timer |-> 0]

\* the value of Game.player before the first start_level (None)
NoPlayer == [state |-> "NONE"]

\* the states handle_input leaves alone
BusyStates(g) ==
    IF g = "sh" THEN {"PUNCHING", "KICKING", "THROWING", "JUMPING", "FALLING"}
    ELSE {"ATTACKING", "JUMPING", "FALLING"}

\* vx *= 0.8; if abs(vx) < 0.5: vx = 0
Friction(vx) == LET v == Scale(vx, 4, 5) IN IF Abs(v) < 50 THEN 0 ELSE v

\* Player.handle_input; keys is "left", "right" or "none"
PlayerHandleInput(g, p, keys) ==
    IF p.state = "DEAD" THEN p
    ELSE
      LET moving == keys # "none"
          vx1 == CASE keys = "left" -> -PLAYER_STATS(g).MOVE_SPEED
                   [] keys = "right" -> PLAYER_STATS(g).MOVE_SPEED
                   [] OTHER -> Friction(p.vx)
          fr1 == CASE keys = "left" -> FALSE
                   [] keys = "right" -> TRUE
                   [] OTHER -> p.facing_right
          st1 == IF p.state \notin BusyStates(g)
                 THEN (IF moving THEN "RUNNING" ELSE "IDLE")
                 ELSE p.state
          ad1 == IF p.attack_duration > 0 THEN p.attack_duration - 1 ELSE p.attack_duration
      IN [p EXCEPT
            !.vx = vx1,
            !.facing_right = fr1,
            !.state = st1,
            !.punch_cd = IF @ > 0 THEN @ - 1 ELSE @,
            !.kick_cd = IF @ > 0 THEN @ - 1 ELSE @,
            !.batarang_cd = IF @ > 0 THEN @ - 1 ELSE @,
            !.attack_duration = ad1,
            !.current_attack = IF p.attack_duration > 0 /\ ad1 = 0 THEN "NONE" ELSE @,
            !.combo_timer = IF @ > 0 THEN @ - 1 ELSE @,
            !.combo = IF p.combo_timer > 0 THEN @ ELSE 0]

\* Player.jump without its test of the jumps left (the variant C32 is tested
\* against)
PlayerJump_Unlimited(g, p) ==
    [p EXCEPT !.vy = IF p.jumps_left = PLAYER_STATS(g).MAX_JUMPS
                     THEN PLAYER_STATS(g).JUMP_POWER
                     ELSE PLAYER_STATS(g).DOUBLE_JUMP_POWER,
              !.jumps_left = @ - 1,
              !.state = "JUMPING"]

\* Player.jump
PlayerJump(g, p) ==
    IF p.jumps_left > 0
    THEN [p EXCEPT !.vy = IF p.jumps_left = PLAYER_STATS(g).MAX_JUMPS
                          THEN PLAYER_STATS(g).JUMP_POWER
                          ELSE PLAYER_STATS(g).DOUBLE_JUMP_POWER,
                   !.jumps_left = @ - 1,
                   !.state = "JUMPING"]
    ELSE p

\* Player.punch
PlayerPunch(g, p) ==
    IF p.punch_cd <= 0 /\ p.attack_duration <= 0
    THEN [p EXCEPT !.punch_cd = PLAYER_STATS(g).PUNCH_COOLDOWN,
                   !.current_attack = "PUNCH",
                   !.attack_duration = PLAYER_STATS(g).PUNCH_DURATION,
                   !.state = IF g = "sh" THEN "PUNCHING" ELSE "ATTACKING"]
    ELSE p

\* Player.kick firing one tick early, while its cooldown is still 1
PlayerKick_Early(g, p) ==
    IF p.kick_cd <= 1 /\ p.attack_duration <= 0
    THEN [p EXCEPT !.kick_cd = PLAYER_STATS(g).KICK_COOLDOWN,
                   !.current_attack = "KICK",
                   !.attack_duration = PLAYER_STATS(g).KICK_DURATION,
                   !.state = IF g = "sh" THEN "KICKING" ELSE "ATTACKING"]
    ELSE p

\* Player.kick
PlayerKick(g, p) ==
    IF p.kick_cd <= 0 /\ p.attack_duration <= 0
    THEN [p EXCEPT !.kick_cd = PLAYER_STATS(g).KICK_COOLDOWN,
                   !.current_attack = "KICK",
                   !.attack_duration = PLAYER_STATS(g).KICK_DURATION,
                   !.state = IF g = "sh" THEN "KICKING" ELSE "ATTACKING"]
    ELSE p

\* Player.throw_batarang: whether it throws
CanThrow(p) == p.batarang_cd <= 0

\* Player.throw_batarang: the player after a throw (sh also sets the state)
PlayerThrow(g, p) ==
    IF CanThrow(p)
    THEN [p EXCEPT !.batarang_cd = PLAYER_STATS(g).BATARANG_COOLDOWN,
                   !.current_attack = "BATARANG",
                   !.attack_duration = PLAYER_STATS(g).BATARANG_DURATION,
                   !.state = IF g = "sh" THEN "THROWING" ELSE @]
    ELSE p

\* Player.throw_batarang: the projectile it returns
Batarang(g, p) ==
    Projectile(p.x + (IF p.facing_right THEN Px(p.width) ELSE 0),
               p.y + Px(p.height \div 3),
               PLAYER_STATS(g).BATARANG_SPEED * (IF p.facing_right THEN 1 ELSE -1), 0,
               PLAYER_STATS(g).BATARANG_DAMAGE, TRUE,
               PLAYER_STATS(g).BATARANG_MAX_DISTANCE)

\* Player.get_attack_rect: NoRect stands for None
PlayerAttackRect(g, p) ==
    IF p.current_attack = "NONE" \/ p.attack_duration <= 0 THEN NoRect
    ELSE IF p.current_attack \notin {"PUNCH", "KICK"} THEN NoRect
    ELSE LET r == IF p.current_attack = "PUNCH" THEN PLAYER_STATS(g).PUNCH_RANGE
                  ELSE PLAYER_STATS(g).KICK_RANGE
             i == PLAYER_STATS(g).RECT_INSET
         IN IF p.facing_right
            THEN Rect(p.x + Px(p.width), p.y + Px(i), r, p.height - 2 * i)
            ELSE Rect(p.x - Px(r), p.y + Px(i), r, p.height - 2 * i)

\* the combo damage rounded to the nearest integer instead of truncated (the
\* variant C8 is tested against)
ComboDamage_Rounded(g, base, combo) ==
    (base * Min(100 + combo * PLAYER_STATS(g).COMBO_DAMAGE_BONUS,
                PLAYER_STATS(g).MAX_COMBO_MULTIPLIER) + 50) \div 100

\* the combo damage without the cap of the multiplier (the variant C9 is
\* tested against)
ComboDamage_Uncapped(g, base, combo) ==
    (base * (100 + combo * PLAYER_STATS(g).COMBO_DAMAGE_BONUS)) \div 100

\* int(base * min(1.0 + combo * COMBO_DAMAGE_BONUS, MAX_COMBO_MULTIPLIER))
ComboDamage(g, base, combo) ==
    (base * Min(100 + combo * PLAYER_STATS(g).COMBO_DAMAGE_BONUS,
                PLAYER_STATS(g).MAX_COMBO_MULTIPLIER)) \div 100

\* Player.get_attack_damage (2d) / Player.get_damage (sh)
PlayerDamage(g, p) ==
    IF g = "sh"
    THEN ComboDamage(g, IF p.current_attack = "PUNCH" THEN PLAYER_STATS(g).PUNCH_DAMAGE
                        ELSE PLAYER_STATS(g).KICK_DAMAGE, p.combo)
    ELSE CASE p.current_attack = "PUNCH" ->
                ComboDamage(g, PLAYER_STATS(g).PUNCH_DAMAGE, p.combo)
           [] p.current_attack = "KICK" ->
                ComboDamage(g, PLAYER_STATS(g).KICK_DAMAGE, p.combo)
           [] OTHER -> 0

\* Player.register_hit
PlayerRegisterHit(g, p) ==
    [p EXCEPT !.combo = @ + 1, !.combo_timer = PLAYER_STATS(g).COMBO_WINDOW]

\* Player.take_damage without its invincibility test (the variant C3 is
\* tested against)
PlayerTakeDamage_Unguarded(g, p, amount, knockback_dir) ==
    [EntityTakeDamage(p, amount, knockback_dir) EXCEPT
       !.combo = 0,
       !.combo_timer = 0,
       !.invincibility = PLAYER_STATS(g).HIT_INVINCIBILITY]

\* Player.take_damage
PlayerTakeDamage(g, p, amount, knockback_dir) ==
    IF p.invincibility > 0 THEN p
    ELSE [EntityTakeDamage(p, amount, knockback_dir) EXCEPT
            !.combo = 0,
            !.combo_timer = 0,
            !.invincibility = PLAYER_STATS(g).HIT_INVINCIBILITY]

\* Player.update_checkpoint (sh)
PlayerUpdateCheckpoint(g, p) ==
    IF is_on_ground(g, p) /\ p.state # "DEAD"
    THEN [p EXCEPT !.last_safe_x = p.x, !.last_safe_y = p.y]
    ELSE p

\* Player.update.  The animation timer is advanced in sh only, where the
\* checkpoint depends on it.
PlayerUpdate(g, p) ==
    LET ground == Px(CONFIG(g).GROUND_LEVEL)
        vy1 == apply_gravity(g, p)
        x1 == p.x + p.vx
        y1 == p.y + vy1
        landed == y1 + Px(p.height) > ground
        y2 == IF landed THEN ground - Px(p.height) ELSE y1
        vy2 == IF landed THEN 0 ELSE vy1
        st2 == IF landed /\ p.state \in {"JUMPING", "FALLING"} THEN "IDLE" ELSE p.state
        st3 == IF vy2 < 0 THEN "JUMPING"
               ELSE IF vy2 > Px(2) /\ ~(y2 + Px(p.height) >= ground) THEN "FALLING"
               ELSE st2
        x2 == Max(0, Min(x1, Px(CONFIG(g).LEVEL_WIDTH - p.width)))
        p1 == [p EXCEPT !.x = x2, !.y = y2, !.vy = vy2, !.state = st3,
                        !.jumps_left = IF landed THEN PLAYER_STATS(g).MAX_JUMPS ELSE @,
                        !.invincibility = IF @ > 0 THEN @ - 1 ELSE @]
        p2 == IF g = "sh" /\ p.anim_timer = 0 THEN PlayerUpdateCheckpoint(g, p1) ELSE p1
    IN IF g = "sh"
       THEN [p2 EXCEPT !.anim_timer = IF @ + 1 >= 8 THEN 0 ELSE @ + 1]
       ELSE p2

\* Player.respawn that does not take a life (the variant C7 is tested
\* against)
PlayerRespawn_Free(g, p) ==
    IF p.lives <= 0 THEN p
    ELSE [p EXCEPT !.health = p.max_health,
                   !.x = p.last_safe_x,
                   !.y = p.last_safe_y,
                   !.vx = 0,
                   !.vy = 0,
                   !.state = "IDLE",
                   !.invincibility = PLAYER_STATS(g).RESPAWN_INVINCIBILITY,
                   !.combo = 0,
                   !.combo_timer = 0,
                   !.current_attack = "NONE",
                   !.attack_duration = 0]

\* Player.respawn (sh): the player after a successful respawn
PlayerRespawn(g, p) ==
    IF p.lives <= 0 THEN p
    ELSE [p EXCEPT !.lives = @ - 1,
                   !.health = p.max_health,
                   !.x = p.last_safe_x,
                   !.y = p.last_safe_y,
                   !.vx = 0,
                   !.vy = 0,
                   !.state = "IDLE",
                   !.invincibility = PLAYER_STATS(g).RESPAWN_INVINCIBILITY,
                   !.combo = 0,
                   !.combo_timer = 0,
                   !.current_attack = "NONE",
                   !.attack_duration = 0]

-----------------------------------------------------------------------------
(* 2d: Enemy. *)

\* Enemy.__init__
Enemy(x, y, type) ==
    [type |-> type, x |-> x, y |-> y,
     width |-> ENEMY_CONFIGS[type].width, height |-> ENEMY_CONFIGS[type].height,
     vx |-> 0, vy |-> 0, facing_right |-> TRUE, state |-> "IDLE",
     health |-> ENEMY_CONFIGS[type].health, max_health |-> ENEMY_CONFIGS[type].health,
     invincibility |-> 0, attack_cooldown |-> 0,
     current_attack |-> "NONE", attack_frame |-> 0,
     spawn_x |-> x, ai_timer |-> 0, ai_state |-> "patrol",
     blocking |-> FALSE, projectile_cooldown |-> 0]

\* Enemy.update, lines 1531-1543: the AI states the periodic decision may
\* choose; random.random() < aggression may go either way
EnemyDecide(cfg, dx, dy) ==
    IF DistLess(dx, dy, cfg.attack_range) THEN {"attack"}
    ELSE IF DistLess(dx, dy, 300)
         THEN {"chase"} \cup (IF DistMore(dx, dy, 400) THEN {"patrol"}
                              ELSE {"chase", "retreat"})
    ELSE IF DistMore(dx, dy, 400) THEN {"patrol"}
    ELSE {"chase", "retreat"}

\* the directions a patrol may take: target_x = spawn_x + sin(clock) * range,
\* any value within range of spawn_x; TRUE is target_x > x
PatrolRight(x, spawn_x, range) ==
    IF x >= spawn_x + Px(range) THEN {FALSE}
    ELSE IF x < spawn_x - Px(range) THEN {TRUE}
    ELSE {TRUE, FALSE}

\* Enemy.update, lines 1546-1595: the enemy after executing AI state ai,
\* with the projectile it fires, if any
EnemyExecute(e, cfg, ai, dx, dy) ==
    CASE ai = "patrol" ->
           { [e |-> [e EXCEPT !.ai_state = ai,
                              !.vx = IF r THEN cfg.speed \div 2 ELSE -(cfg.speed \div 2),
                              !.facing_right = r],
              proj |-> <<>>] : r \in PatrolRight(e.x, e.spawn_x, cfg.patrol_range) }
      [] ai = "chase" ->
           { [e |-> [e EXCEPT !.ai_state = ai,
                              !.vx = IF dx > Px(10) THEN cfg.speed
                                     ELSE IF dx < -Px(10) THEN -cfg.speed ELSE 0],
              proj |-> <<>>] }
      [] ai = "attack" ->
           LET melee == e.attack_cooldown <= 0 /\ DistLess(dx, dy, cfg.attack_range)
               shoot == /\ cfg.has_projectile
                        /\ e.projectile_cooldown <= 0
                        /\ DistMore(dx, dy, 100)
                        /\ DistLess(dx, dy, 400)
               e1 == [e EXCEPT !.ai_state = ai,
                               !.vx = 0,
                               !.current_attack = IF melee THEN "ENEMY_MELEE" ELSE @,
                               !.attack_cooldown = IF melee THEN cfg.attack_cooldown ELSE @,
                               !.attack_frame = IF melee THEN 15 ELSE @,
                               !.projectile_cooldown = IF shoot THEN 90 ELSE @]
           IN { [e |-> e1,
                 proj |-> IF shoot
                          THEN << Projectile(
                                    e.x + (IF e.facing_right THEN Px(e.width) ELSE 0),
                                    e.y + Px(e.height \div 3),
                                    cfg.projectile_speed * (IF e.facing_right THEN 1 ELSE -1),
                                    0, cfg.projectile_damage, FALSE, 600) >>
                          ELSE <<>>] }
      [] OTHER ->
           { [e |-> [e EXCEPT !.ai_state = ai,
                              !.vx = IF dx > 0 THEN -cfg.speed ELSE cfg.speed],
              proj |-> <<>>] }

\* Enemy.update, lines 1597-1603: blocking (a 30% chance while the player attacks)
EnemyBlock(e, cfg, p) ==
    IF cfg.can_block /\ p.attack_duration > 0
    THEN {e, [e EXCEPT !.blocking = TRUE, !.state = "BLOCKING"]}
    ELSE {[e EXCEPT !.blocking = FALSE]}

\* Enemy.update, lines 1605-1610: dodge (a 20% chance)
EnemyDodge(e, cfg, p, dx, dy) ==
    IF cfg.can_dodge /\ p.attack_duration > 5 /\ DistLess(dx, dy, 100)
    THEN {e, [e EXCEPT !.vx = (IF dx > 0 THEN -1 ELSE 1) * cfg.speed * 2]}
    ELSE {e}

\* the end of Enemy.update with an attack frame that does not run down (the
\* variant C34 is tested against)
EnemyPhysics_Held(e) ==
    LET ground == Px(CONFIG_2D.GROUND_LEVEL)
        vy1 == apply_gravity("2d", e)
        y1 == e.y + vy1
        landed == y1 + Px(e.height) > ground
    IN [e EXCEPT !.x = Max(0, Min(e.x + e.vx, Px(CONFIG_2D.LEVEL_WIDTH - e.width))),
                 !.y = IF landed THEN ground - Px(e.height) ELSE y1,
                 !.vy = IF landed THEN 0 ELSE vy1]

\* Enemy.update, lines 1612-1634: gravity, motion, ground, bounds, attack frame
EnemyPhysics(e) ==
    LET ground == Px(CONFIG_2D.GROUND_LEVEL)
        vy1 == apply_gravity("2d", e)
        y1 == e.y + vy1
        landed == y1 + Px(e.height) > ground
        af == IF e.attack_frame > 0 THEN e.attack_frame - 1 ELSE e.attack_frame
    IN [e EXCEPT !.x = Max(0, Min(e.x + e.vx, Px(CONFIG_2D.LEVEL_WIDTH - e.width))),
                 !.y = IF landed THEN ground - Px(e.height) ELSE y1,
                 !.vy = IF landed THEN 0 ELSE vy1,
                 !.attack_frame = af,
                 !.current_attack = IF e.attack_frame > 0 /\ af = 0 THEN "NONE" ELSE @]

\* Enemy.update: every outcome the random draws allow, each with the
\* projectile fired (a sequence of length 0 or 1)
EnemyUpdate(e, p) ==
    IF e.state = "DEAD" THEN {[e |-> e, proj |-> <<>>]}
    ELSE
      LET cfg == ENEMY_CONFIGS[e.type]
          dx == p.x - e.x
          dy == p.y - e.y
          timer == e.ai_timer + 1
          e1 == [e EXCEPT !.attack_cooldown = IF @ > 0 THEN @ - 1 ELSE @,
                          !.projectile_cooldown = IF @ > 0 THEN @ - 1 ELSE @,
                          !.invincibility = IF @ > 0 THEN @ - 1 ELSE @,
                          !.facing_right = dx > 0,
                          !.ai_timer = IF timer >= 30 THEN 0 ELSE timer]
          ais == IF timer >= 30 THEN EnemyDecide(cfg, dx, dy) ELSE {e.ai_state}
      IN UNION { UNION { UNION {
             { [e |-> EnemyPhysics(e4), proj |-> r2.proj]
                 : e4 \in EnemyDodge(e3, cfg, p, dx, dy) }
               : e3 \in EnemyBlock(r2.e, cfg, p) }
               : r2 \in EnemyExecute(e1, cfg, ai, dx, dy) }
               : ai \in ais }

\* Enemy.get_attack_rect
EnemyAttackRect(e) ==
    IF e.current_attack # "ENEMY_MELEE" \/ e.attack_frame < 5 THEN NoRect
    ELSE LET r == ENEMY_CONFIGS[e.type].attack_range IN
         IF e.facing_right
         THEN Rect(e.x + Px(e.width), e.y + Px(20), r, e.height - 40)
         ELSE Rect(e.x - Px(r), e.y + Px(20), r, e.height - 40)

\* Enemy.take_damage without the reduction for a blocking enemy (the variant
\* C11 is tested against)
EnemyTakeDamage_Unblocked(e, amount, knockback_dir) ==
    EntityTakeDamage(e, amount, knockback_dir)

\* Enemy.take_damage
EnemyTakeDamage(e, amount, knockback_dir) ==
    EntityTakeDamage(e, IF e.blocking /\ ENEMY_CONFIGS[e.type].can_block
                        THEN amount \div 3 ELSE amount, knockback_dir)

-----------------------------------------------------------------------------
(* Health pickups. *)

\* HealthPickup.__init__; heal is 20 in 2d and 25 in sh
HealthPickup(x, y) == [x |-> x, y |-> y, lifetime |-> 600]

PickupHeal(g) == IF g = "sh" THEN 25 ELSE 20

\* HealthPickup.get_rect
PickupRect(pk) == Rect(pk.x, pk.y, 25, 25)

-----------------------------------------------------------------------------
(* The game as one record (a "world"), so that the phases of Game.update    *)
(* can be composed; each phase maps a world to the set of worlds its        *)
(* random draws allow.                                                      *)

World ==
    [variant |-> variant, state |-> state, won |-> won, level |-> level,
     intro_timer |-> intro_timer, player |-> player, villain |-> villain,
     enemies |-> enemies, projectiles |-> projectiles, pickups |-> pickups,
     configs |-> configs, obs |-> obs]

\* The observation of one step: kind names the step; hits lists the
\* take_damage calls of the tick in call order; owed is the reward of the
\* opponents that were DEAD and not yet processed when the tick began,
\* credited what the tick added to the score for processed deaths, score0
\* and lives0 the player's score and lives when the tick began; death is
\* the outcome of the end-of-tick death check ("none", "respawn", "over");
\* escalations counts the phase escalations applied during the tick;
\* pre_death holds the player as the death check found it when dead; events
\* counts the key events handled since the last update; value holds the
\* damage get_attack_damage / get_damage returned for the hit just landed.
NewObs(kind, p) ==
    [kind |-> kind, hits |-> <<>>, owed |-> 0, credited |-> 0,
     score0 |-> IF p.state = "NONE" THEN 0 ELSE p.score,
     lives0 |-> IF p.state = "NONE" THEN 0 ELSE p.lives,
     death |-> "none", escalations |-> 0, pre_death |-> <<>>, events |-> 0,
     value |-> <<>>]

\* one take_damage call: who was hit ("player", "enemy", "villain"), by what
\* ("projectile", "melee", "enemy_melee", "villain_melee"), the amount asked for, the
\* target (health, state, invincibility) before and after the call, the
\* player's combo count, combo timer
\* and attack when the call was made, and whether the target was blocking
Hit(target, src, amount, before, after, attacker, blocked) ==
    [target |-> target, src |-> src, amount |-> amount, blocked |-> blocked,
     inv0 |-> before.invincibility, inv1 |-> after.invincibility,
     state0 |-> before.state,
     health0 |-> before.health, health1 |-> after.health,
     state1 |-> after.state, same |-> after = before,
     combo0 |-> attacker.combo, timer0 |-> attacker.combo_timer,
     attack |-> attacker.current_attack, proj |-> <<>>]

\* the take_damage call of a projectile that overlaps its target: proj holds
\* the projectile as it was when the collision was tested
ShotHit(pr, target, before, after, attacker, blocked) ==
    [Hit(target, "projectile", pr.damage, before, after, attacker, blocked)
        EXCEPT !.proj = <<pr>>]

RemoveAt(seq, k) == [i \in 1..(Len(seq) - 1) |-> IF i < k THEN seq[i] ELSE seq[i + 1]]

RECURSIVE SumSeq(_)
SumSeq(seq) == IF seq = <<>> THEN 0 ELSE Head(seq) + SumSeq(Tail(seq))

-----------------------------------------------------------------------------
(* 2d: Game. *)

\* the offsets random.randint(-50, 50) is drawn from in the model
SpawnOffsets2D == {-50, 0, 50}

\* Game.start_level, lines 2192-2203: the henchmen lists it may build
RECURSIVE SpawnHenchmen2D(_, _, _)
SpawnHenchmen2D(lv, i, n) ==
    IF i >= n THEN {<<>>}
    ELSE LET spacing == (CONFIG_2D.LEVEL_WIDTH - 500) \div (lv.num_henchmen + 1) IN
         { <<Enemy(Px(400 + i * spacing + off),
                   Px(CONFIG_2D.GROUND_LEVEL - ENEMY_CONFIGS[t].height), t)>> \o rest :
             t \in lv.henchman_types, off \in SpawnOffsets2D,
             rest \in SpawnHenchmen2D(lv, i + 1, n) }

\* Game.start_level (2d)
StartLevel2D(w, level_index) ==
    IF level_index >= Len(LEVEL_CONFIGS)
    THEN {[w EXCEPT !.won = TRUE, !.state = "game_over"]}
    ELSE LET lv == LEVEL_CONFIGS[level_index + 1]
             boss == Enemy(Px(CONFIG_2D.LEVEL_WIDTH - 300),
                           Px(CONFIG_2D.GROUND_LEVEL - ENEMY_CONFIGS[lv.boss_type].height),
                           lv.boss_type)
         IN { [w EXCEPT !.level = level_index,
                        !.player = Player("2d", Px(100), Px(CONFIG_2D.GROUND_LEVEL - 100)),
                        !.enemies = hs \o <<boss>>,
                        !.projectiles = <<>>,
                        !.pickups = <<>>,
                        !.state = "level_intro",
                        !.intro_timer = 180] :
                hs \in SpawnHenchmen2D(lv, 0, Min(lv.num_henchmen, MaxHenchmen)) }

\* Game.update, lines 2290-2317: a dead enemy is processed; k is its index
\* in Game.enemies
ProcessDeath2D(w, e, k) ==
    LET cfg == ENEMY_CONFIGS[e.type]
        credit(pks) ==
            [w EXCEPT !.pickups = pks,
                      !.player.score = @ + cfg.score_value,
                      !.enemies = RemoveAt(@, k),
                      !.obs.credited = @ + cfg.score_value]
        after == {credit(w.pickups), credit(Append(w.pickups, HealthPickup(e.x, e.y)))}
    IN IF ~cfg.is_boss THEN after
       ELSE UNION { IF w1.level + 1 >= Len(LEVEL_CONFIGS)
                    THEN {[w1 EXCEPT !.won = TRUE, !.state = "game_over"]}
                    ELSE { [w2 EXCEPT !.player.score = w1.player.score] :
                             w2 \in StartLevel2D(w1, w1.level + 1) }
                    : w1 \in after }

\* Game.update, lines 2289-2331: the loop over a copy of Game.enemies.
\* copy[i] is Game.enemies[k].  The boss is the last enemy of the list
\* (start_level appends it last and removals keep the order), so the loop
\* ends with it.
RECURSIVE EnemyLoop2D(_, _, _, _)
EnemyLoop2D(w, copy, i, k) ==
    IF i > Len(copy) THEN {w}
    ELSE IF copy[i].state = "DEAD"
    THEN UNION { IF ENEMY_CONFIGS[copy[i].type].is_boss THEN {w1}
                 ELSE EnemyLoop2D(w1, copy, i + 1, k)
                 : w1 \in ProcessDeath2D(w, copy[i], k) }
    ELSE UNION { EnemyLoop2D([w EXCEPT !.enemies[k] = r.e,
                                       !.projectiles = @ \o r.proj],
                             copy, i + 1, k + 1)
                 : r \in EnemyUpdate(copy[i], w.player) }

\* the batarang loop with a batarang that stays active after its hit
RECURSIVE BatarangHit2D_Piercing(_, _, _)
BatarangHit2D_Piercing(w, pr, j) ==
    IF j > Len(w.enemies) THEN [w |-> w, hit |-> FALSE]
    ELSE LET e == w.enemies[j] IN
         IF e.state # "DEAD" /\ colliderect(ProjectileRect(pr), get_rect(e))
         THEN LET e1 == EnemyTakeDamage(e, pr.damage, IF pr.vx > 0 THEN 1 ELSE -1) IN
              [w |-> [w EXCEPT !.enemies[j] = e1,
                               !.player = PlayerRegisterHit("2d", w.player),
                               !.obs.hits = Append(@, ShotHit(pr, "enemy",
                                                          e, e1, w.player,
                                   e.blocking /\ ENEMY_CONFIGS[e.type].can_block))],
               hit |-> FALSE]
         ELSE BatarangHit2D_Piercing(w, pr, j + 1)

\* Game.update, lines 2343-2352: a player projectile hits the first living
\* enemy it overlaps; the result is the world and whether it hit
RECURSIVE BatarangHit2D(_, _, _)
BatarangHit2D(w, pr, j) ==
    IF j > Len(w.enemies) THEN [w |-> w, hit |-> FALSE]
    ELSE LET e == w.enemies[j] IN
         IF e.state # "DEAD" /\ colliderect(ProjectileRect(pr), get_rect(e))
         THEN LET e1 == EnemyTakeDamage(e, pr.damage, IF pr.vx > 0 THEN 1 ELSE -1) IN
              [w |-> [w EXCEPT !.enemies[j] = e1,
                               !.player = PlayerRegisterHit("2d", w.player),
                               !.obs.hits = Append(@, ShotHit(pr, "enemy",
                                                          e, e1, w.player,
                                   e.blocking /\ ENEMY_CONFIGS[e.type].can_block))],
               hit |-> TRUE]
         ELSE BatarangHit2D(w, pr, j + 1)

\* Game.update, lines 2334-2358: the loop over a copy of Game.projectiles;
\* k is the index of copy[i] in Game.projectiles.  A projectile that hits is
\* deactivated and stays in the list until the next tick.
RECURSIVE ProjectileLoop2D(_, _, _, _)
ProjectileLoop2D(w, copy, i, k) ==
    IF i > Len(copy) THEN w
    ELSE LET pr == ProjectileUpdate(copy[i]) IN
         IF ~pr.active
         THEN ProjectileLoop2D([w EXCEPT !.projectiles = RemoveAt(@, k)], copy, i + 1, k)
         ELSE IF pr.from_player
         THEN LET r == BatarangHit2D(w, pr, 1) IN
              ProjectileLoop2D([r.w EXCEPT !.projectiles[k] =
                                               [pr EXCEPT !.active = ~r.hit]],
                               copy, i + 1, k + 1)
         ELSE IF colliderect(ProjectileRect(pr), get_rect(w.player))
         THEN LET p1 == PlayerTakeDamage("2d", w.player, pr.damage,
                                         IF pr.vx > 0 THEN 1 ELSE -1) IN
              ProjectileLoop2D([w EXCEPT !.player = p1,
                                         !.projectiles[k] = [pr EXCEPT !.active = FALSE],
                                         !.obs.hits = Append(@, ShotHit(pr, "player", w.player, p1, w.player, FALSE))],
                               copy, i + 1, k + 1)
         ELSE ProjectileLoop2D([w EXCEPT !.projectiles[k] = pr], copy, i + 1, k + 1)

\* Game.update, lines 2361-2369: the player's melee rectangle, taken once,
\* is tested against every living enemy
RECURSIVE PlayerMelee2D(_, _, _)
PlayerMelee2D(w, rect, j) ==
    IF rect = NoRect \/ j > Len(w.enemies) THEN w
    ELSE LET e == w.enemies[j] IN
         IF e.state # "DEAD" /\ colliderect(rect, get_rect(e))
         THEN LET damage == PlayerDamage("2d", w.player)
                  e1 == EnemyTakeDamage(e, damage, IF w.player.facing_right THEN 1 ELSE -1)
              IN PlayerMelee2D([w EXCEPT !.enemies[j] = e1,
                                         !.player = PlayerRegisterHit("2d", w.player),
                                         !.obs.hits = Append(@, Hit("enemy", "melee", damage,
                                                                    e, e1, w.player,
                                   e.blocking /\ ENEMY_CONFIGS[e.type].can_block))],
                               rect, j + 1)
         ELSE PlayerMelee2D(w, rect, j + 1)

\* Game.update, lines 2372-2379: every living enemy's attack rectangle is
\* tested against the player
RECURSIVE EnemyMelee2D(_, _)
EnemyMelee2D(w, j) ==
    IF j > Len(w.enemies) THEN w
    ELSE LET e == w.enemies[j] IN
         IF e.state # "DEAD" /\ colliderect(EnemyAttackRect(e), get_rect(w.player))
         THEN LET amount == ENEMY_CONFIGS[e.type].damage
                  p1 == PlayerTakeDamage("2d", w.player, amount,
                                         IF e.facing_right THEN 1 ELSE -1)
              IN EnemyMelee2D([w EXCEPT !.player = p1,
                                        !.obs.hits = Append(@, Hit("player", "enemy_melee",
                                                            amount, w.player, p1, w.player, FALSE))],
                              j + 1)
         ELSE EnemyMelee2D(w, j + 1)

\* Game.update, the pickup loop (2d lines 2382-2391, sh lines 2247-2254);
\* k is the index of copy[i] in Game.pickups
RECURSIVE PickupLoop(_, _, _, _)
PickupLoop(w, copy, i, k) ==
    IF i > Len(copy) THEN w
    ELSE LET pk == [copy[i] EXCEPT !.lifetime = @ - 1] IN
         IF pk.lifetime <= 0
         THEN PickupLoop([w EXCEPT !.pickups = RemoveAt(@, k)], copy, i + 1, k)
         ELSE IF colliderect(PickupRect(pk), get_rect(w.player))
         THEN PickupLoop([w EXCEPT !.player.health =
                                       Min(w.player.max_health, @ + PickupHeal(w.variant)),
                                   !.pickups = RemoveAt(@, k)],
                         copy, i + 1, k)
         ELSE PickupLoop([w EXCEPT !.pickups[k] = pk], copy, i + 1, k + 1)

\* Game.update, lines 2394-2396: the player's death ends the game
DeathCheck2D(w) ==
    IF w.player.state = "DEAD"
    THEN [w EXCEPT !.won = FALSE, !.state = "game_over", !.obs.death = "over",
                   !.obs.pre_death = <<w.player>>]
    ELSE w

\* the reward of the opponents of a list that are DEAD
RECURSIVE Owed2D(_)
Owed2D(es) ==
    IF es = <<>> THEN 0
    ELSE (IF Head(es).state = "DEAD" THEN ENEMY_CONFIGS[Head(es).type].score_value ELSE 0)
         + Owed2D(Tail(es))

\* Game.update (2d) in state "playing": the worlds one tick may lead to
Update2D(w, keys) ==
    LET w0 == [w EXCEPT !.obs = [NewObs("tick", w.player) EXCEPT
                                    !.owed = Owed2D(w.enemies)],
                        !.player = PlayerUpdate("2d", PlayerHandleInput("2d", w.player, keys))]
    IN { LET w2 == ProjectileLoop2D(w1, w1.projectiles, 1, 1)
             w3 == PlayerMelee2D(w2, PlayerAttackRect("2d", w2.player), 1)
             w4 == EnemyMelee2D(w3, 1)
             w5 == PickupLoop(w4, w4.pickups, 1, 1)
         IN DeathCheck2D(w5)
         : w1 \in EnemyLoop2D(w0, w0.enemies, 1, 1) }

-----------------------------------------------------------------------------
(* sh: Villain.  The villain reads and writes its archetype's entry of the  *)
(* shared table VILLAIN_CONFIGS (self.config is that entry, not a copy);    *)
(* cfgs is the table as it currently stands.                                *)

\* Villain.__init__
Villain(x, y, villain_type, cfgs) ==
    [villain_type |-> villain_type, x |-> x, y |-> y,
     width |-> cfgs[villain_type].width, height |-> cfgs[villain_type].height,
     vx |-> 0, vy |-> 0, facing_right |-> TRUE, state |-> "IDLE",
     health |-> cfgs[villain_type].health, max_health |-> cfgs[villain_type].health,
     invincibility |-> 0, attack_cooldown |-> 0,
     current_attack |-> "NONE", attack_frame |-> 0,
     spawn_x |-> x, ai_state |-> "patrol", ai_timer |-> 0,
     special_cooldown |-> 0, projectile_cooldown |-> 0,
     phase |-> 1, venom_active |-> FALSE,
     coin_flip_timer |-> 0, erratic_timer |-> 0]

NoVillain == [state |-> "NONE"]

\* Villain._check_phase_transition without Bane's test of the phase it is
\* in (the variant C5 is tested against)
CheckPhaseTransition_Repeated(v, cfgs) ==
    LET cfg == cfgs[v.villain_type] IN
    IF cfg.phases <= 1 THEN [v |-> v, cfgs |-> cfgs, esc |-> 0]
    ELSE IF v.villain_type = "bane"
    THEN IF v.health * 100 < 50 * v.max_health
         THEN [v |-> [v EXCEPT !.phase = 2, !.venom_active = TRUE],
               cfgs |-> [cfgs EXCEPT !["bane"].damage = (@ * 3) \div 2,
                                     !["bane"].speed = Scale(@, 13, 10)],
               esc |-> 1]
         ELSE [v |-> v, cfgs |-> cfgs, esc |-> 0]
    ELSE IF v.villain_type = "deathstroke"
    THEN IF v.health * 100 < 66 * v.max_health /\ v.phase = 1
         THEN [v |-> [v EXCEPT !.phase = 2], cfgs |-> cfgs, esc |-> 1]
         ELSE IF v.health * 100 < 33 * v.max_health /\ v.phase = 2
         THEN [v |-> [v EXCEPT !.phase = 3],
               cfgs |-> [cfgs EXCEPT !["deathstroke"].can_counter = TRUE],
               esc |-> 1]
         ELSE [v |-> v, cfgs |-> cfgs, esc |-> 0]
    ELSE [v |-> v, cfgs |-> cfgs, esc |-> 0]

\* Villain._check_phase_transition: the villain, the table and the number
\* of escalations applied.  health / max_health < 0.5, 0.66, 0.33 are
\* compared in hundredths.
CheckPhaseTransition(v, cfgs) ==
    LET cfg == cfgs[v.villain_type] IN
    IF cfg.phases <= 1 THEN [v |-> v, cfgs |-> cfgs, esc |-> 0]
    ELSE IF v.villain_type = "bane"
    THEN IF v.health * 100 < 50 * v.max_health /\ v.phase = 1
         THEN [v |-> [v EXCEPT !.phase = 2, !.venom_active = TRUE],
               cfgs |-> [cfgs EXCEPT !["bane"].damage = (@ * 3) \div 2,
                                     !["bane"].speed = Scale(@, 13, 10)],
               esc |-> 1]
         ELSE [v |-> v, cfgs |-> cfgs, esc |-> 0]
    ELSE IF v.villain_type = "deathstroke"
    THEN IF v.health * 100 < 66 * v.max_health /\ v.phase = 1
         THEN [v |-> [v EXCEPT !.phase = 2], cfgs |-> cfgs, esc |-> 1]
         ELSE IF v.health * 100 < 33 * v.max_health /\ v.phase = 2
         THEN [v |-> [v EXCEPT !.phase = 3],
               cfgs |-> [cfgs EXCEPT !["deathstroke"].can_counter = TRUE],
               esc |-> 1]
         ELSE [v |-> v, cfgs |-> cfgs, esc |-> 0]
    ELSE [v |-> v, cfgs |-> cfgs, esc |-> 0]

\* Villain._update_ai_state: the AI states the periodic decision may choose
VillainDecide(cfg, dx, dy) ==
    IF DistLess(dx, dy, cfg.attack_range) THEN {"attack"}
    ELSE IF DistLess(dx, dy, 350)
         THEN {"chase"} \cup (IF DistMore(dx, dy, 450) THEN {"patrol"}
                              ELSE {"chase", "retreat"})
    ELSE IF DistMore(dx, dy, 450) THEN {"patrol"}
    ELSE {"chase", "retreat"}

\* a projectile fired by a villain from its front edge
VillainProjectile(v, dy, speed, damage, max_dist) ==
    Projectile(v.x + (IF v.facing_right THEN Px(v.width) ELSE 0), v.y + Px(dy),
               speed * (IF v.facing_right THEN 1 ELSE -1), 0, damage, FALSE, max_dist)

\* Villain._basic_ai, lines 1560-1592: the branch of the AI state
BasicAIState(v, cfg, dx, dy, prefer_melee) ==
    CASE v.ai_state = "patrol" ->
           { [v |-> [v EXCEPT !.vx = IF r THEN Scale(cfg.speed, 1, 2)
                                      ELSE -Scale(cfg.speed, 1, 2),
                              !.state = "RUNNING"],
              proj |-> <<>>] : r \in PatrolRight(v.x, v.spawn_x, 150) }
      [] v.ai_state = "chase" ->
           { [v |-> [v EXCEPT !.vx = IF dx > 0 THEN cfg.speed ELSE -cfg.speed,
                              !.state = "RUNNING"],
              proj |-> <<>>] }
      [] v.ai_state = "attack" ->
           IF prefer_melee /\ v.attack_cooldown <= 0 /\ DistLess(dx, dy, cfg.attack_range)
           THEN { [v |-> [v EXCEPT !.vx = 0,
                                   !.current_attack = a,
                                   !.attack_cooldown = cfg.attack_cooldown,
                                   !.attack_frame = 15,
                                   !.state = IF a = "PUNCH" THEN "PUNCHING" ELSE "KICKING"],
                   proj |-> <<>>] : a \in {"PUNCH", "KICK"} }
           ELSE IF cfg.has_projectile /\ v.projectile_cooldown <= 0 /\ DistMore(dx, dy, 80)
           THEN { [v |-> [v EXCEPT !.vx = 0, !.projectile_cooldown = 80,
                                   !.state = "THROWING"],
                   proj |-> <<VillainProjectile(v, v.height \div 3, Px(12),
                                                cfg.projectile_damage, 500)>>] }
           ELSE { [v |-> [v EXCEPT !.vx = 0], proj |-> <<>>] }
      [] OTHER ->
           { [v |-> [v EXCEPT !.vx = IF dx > 0 THEN -cfg.speed ELSE cfg.speed,
                              !.state = "RUNNING"],
              proj |-> <<>>] }

\* Villain._basic_ai: the AI state's branch, then blocking (a 25% chance
\* while the player attacks within 150 px)
BasicAI(v, cfg, p, dx, dy, prefer_melee) ==
    UNION { IF cfg.can_block /\ p.attack_duration > 0 /\ DistLess(dx, dy, 150)
            THEN {r, [r EXCEPT !.v.state = "BLOCKING"]}
            ELSE {r}
            : r \in BasicAIState(v, cfg, dx, dy, prefer_melee) }

\* the results of a policy: the villain, the table, the projectile fired
AIResults(rs, cfgs) == { [v |-> r.v, cfgs |-> cfgs, proj |-> r.proj] : r \in rs }

\* Villain._ai_twoface
AITwoFace(v, cfgs, p, dx, dy) ==
    LET t == v.coin_flip_timer + 1 IN
    IF t >= 180
    THEN UNION { AIResults(BasicAI([v EXCEPT !.coin_flip_timer = 0],
                                   cfgs[v.villain_type], p, dx, dy, TRUE),
                           [cfgs EXCEPT ![v.villain_type].aggression = a])
                 : a \in {90, 30} }
    ELSE AIResults(BasicAI([v EXCEPT !.coin_flip_timer = t],
                           cfgs[v.villain_type], p, dx, dy, TRUE), cfgs)

\* Villain._ai_joker
AIJoker(v, cfgs, p, dx, dy) ==
    LET cfg == cfgs[v.villain_type]
        t == v.erratic_timer + 1
        v1 == [v EXCEPT !.erratic_timer = IF t >= 60 THEN 0 ELSE t]
        fake == IF t >= 60
                THEN {v1} \cup (IF Abs(v1.vx) > 10 THEN {[v1 EXCEPT !.vx = -v1.vx]}
                                ELSE {[v1 EXCEPT !.vx = d * cfg.speed] : d \in {-1, 1}})
                ELSE {v1}
        dodge(u) == IF cfg.can_dodge
                    THEN {u} \cup {[u EXCEPT !.vx = d * cfg.speed * 2] : d \in {-1, 1}}
                    ELSE {u}
    IN UNION { UNION { AIResults(BasicAI(v3, cfg, p, dx, dy, TRUE), cfgs)
                       : v3 \in dodge(v2) } : v2 \in fake }

\* Villain._ai_penguin
AIPenguin(v, cfgs, p, dx, dy) ==
    LET cfg == cfgs[v.villain_type]
        v1 == [v EXCEPT !.ai_state =
                   IF DistLess(dx, dy, 150) THEN "retreat"
                   ELSE IF DistMore(dx, dy, 300) /\ DistLess(dx, dy, 500) THEN "attack"
                   ELSE @]
    IN IF v1.projectile_cooldown <= 0 /\ DistMore(dx, dy, 100) /\ DistLess(dx, dy, 500)
       THEN {[v |-> [v1 EXCEPT !.projectile_cooldown = 50], cfgs |-> cfgs,
              proj |-> <<VillainProjectile(v1, v1.height \div 3,
                                           (Px(cfg.projectile_damage) * 7) \div 10,
                                           cfg.projectile_damage, 600)>>]}
       ELSE AIResults(BasicAI(v1, cfg, p, dx, dy, FALSE), cfgs)

\* Villain._ai_scarecrow
AIScarecrow(v, cfgs, p, dx, dy) ==
    LET cfg == cfgs[v.villain_type] IN
    IF v.projectile_cooldown <= 0 /\ DistLess(dx, dy, 400)
    THEN {[v |-> [v EXCEPT !.projectile_cooldown = 70], cfgs |-> cfgs,
           proj |-> <<VillainProjectile(v, v.height \div 2, Px(8),
                                        cfg.projectile_damage, 400)>>]}
    ELSE AIResults(BasicAI(v, cfg, p, dx, dy, TRUE), cfgs)

\* Villain._ai_croc
AICroc(v, cfgs, p, dx, dy) ==
    LET near == DistLess(dx, dy, 150)
        cfgs1 == IF near THEN [cfgs EXCEPT ![v.villain_type].aggression = 95] ELSE cfgs
        grab == v.special_cooldown <= 0 /\ DistLess(dx, dy, 80)
        v1 == [v EXCEPT !.ai_state = IF near THEN "attack" ELSE @,
                        !.special_cooldown = IF grab THEN 120 ELSE @,
                        !.current_attack = IF grab THEN "SPECIAL" ELSE @,
                        !.attack_frame = IF grab THEN 25 ELSE @]
    IN AIResults(BasicAI(v1, cfgs1[v.villain_type], p, dx, dy, TRUE), cfgs1)

\* Villain._ai_bane
AIBane(v, cfgs, p, dx, dy) ==
    LET cfgs1 == IF v.venom_active
                 THEN [cfgs EXCEPT ![v.villain_type].aggression = 95] ELSE cfgs
        cfg == cfgs1[v.villain_type]
        jump == IF /\ v.venom_active
                   /\ DistMore(dx, dy, 150) /\ DistLess(dx, dy, 400)
                   /\ is_on_ground("sh", v)
                THEN {v, [v EXCEPT !.vy = -Px(20),
                                   !.vx = (IF dx > 0 THEN 1 ELSE -1) * cfg.speed * 2]}
                ELSE {v}
    IN UNION { AIResults(BasicAI(v1, cfg, p, dx, dy, TRUE), cfgs1) : v1 \in jump }

\* Villain._ai_deathstroke
AIDeathstroke(v, cfgs, p, dx, dy) ==
    LET cfg == cfgs[v.villain_type]
        counter == IF cfg.can_counter /\ p.attack_duration > 5 /\ DistLess(dx, dy, 120)
                   THEN {v, [v EXCEPT !.current_attack = "SPECIAL", !.attack_frame = 15]}
                   ELSE {v}
        roll(u) == IF DistLess(dx, dy, 100)
                   THEN {u, [u EXCEPT !.vx = (IF dx > 0 THEN -1 ELSE 1)
                                             * Scale(cfg.speed, 5, 2)]}
                   ELSE {u}
    IN UNION { UNION { AIResults(BasicAI(v2, cfg, p, dx, dy, TRUE), cfgs)
                       : v2 \in roll(v1) } : v1 \in counter }

\* Villain._execute_ai, lines 1416-1429: the policy of the villain's type
ExecutePolicy(v, cfgs, p, dx, dy) ==
    CASE v.villain_type = "twoface" -> AITwoFace(v, cfgs, p, dx, dy)
      [] v.villain_type = "joker" -> AIJoker(v, cfgs, p, dx, dy)
      [] v.villain_type = "penguin" -> AIPenguin(v, cfgs, p, dx, dy)
      [] v.villain_type = "scarecrow" -> AIScarecrow(v, cfgs, p, dx, dy)
      [] v.villain_type = "croc" -> AICroc(v, cfgs, p, dx, dy)
      [] v.villain_type = "bane" -> AIBane(v, cfgs, p, dx, dy)
      [] OTHER -> AIDeathstroke(v, cfgs, p, dx, dy)

\* Villain._execute_ai
ExecuteAI(v, cfgs, p, dx, dy) ==
    LET t == v.ai_timer + 1
        ais == IF t >= 30 THEN VillainDecide(cfgs[v.villain_type], dx, dy)
               ELSE {v.ai_state}
    IN UNION { ExecutePolicy([v EXCEPT !.ai_timer = IF t >= 30 THEN 0 ELSE t,
                                       !.ai_state = ai],
                             cfgs, p, dx, dy) : ai \in ais }

\* the physics of Villain.update and Henchman.update without the clamp of x
\* to the world (the variant C31 is tested against)
PhysicsSH_Unbounded(e) ==
    LET ground == Px(CONFIG_SH.GROUND_LEVEL)
        vy1 == apply_gravity("sh", e)
        y1 == e.y + vy1
        landed == y1 + Px(e.height) > ground
    IN [e EXCEPT !.x = e.x + e.vx,
                 !.y = IF landed THEN ground - Px(e.height) ELSE y1,
                 !.vy = IF landed THEN 0 ELSE vy1]

\* Villain.update and Henchman.update: gravity, motion, ground, bounds
PhysicsSH(e) ==
    LET ground == Px(CONFIG_SH.GROUND_LEVEL)
        vy1 == apply_gravity("sh", e)
        y1 == e.y + vy1
        landed == y1 + Px(e.height) > ground
    IN [e EXCEPT !.x = Max(0, Min(e.x + e.vx, Px(CONFIG_SH.LEVEL_WIDTH - e.width))),
                 !.y = IF landed THEN ground - Px(e.height) ELSE y1,
                 !.vy = IF landed THEN 0 ELSE vy1]

\* Villain.update and Henchman.update with an attack cooldown that does not
\* run down (the variant C33 is tested against)
CooldownsSH_Stalled(e) ==
    LET af == IF e.attack_frame > 0 THEN e.attack_frame - 1 ELSE e.attack_frame IN
    [e EXCEPT !.invincibility = IF @ > 0 THEN @ - 1 ELSE @,
              !.attack_frame = af,
              !.current_attack = IF e.attack_frame > 0 /\ af = 0 THEN "NONE" ELSE @]

\* Villain.update and Henchman.update: the cooldowns and the attack frame
CooldownsSH(e) ==
    LET af == IF e.attack_frame > 0 THEN e.attack_frame - 1 ELSE e.attack_frame IN
    [e EXCEPT !.attack_cooldown = IF @ > 0 THEN @ - 1 ELSE @,
              !.invincibility = IF @ > 0 THEN @ - 1 ELSE @,
              !.attack_frame = af,
              !.current_attack = IF e.attack_frame > 0 /\ af = 0 THEN "NONE" ELSE @]

\* Villain.update: every outcome the random draws allow, each with the
\* table as the villain left it, the projectile fired (a sequence of length
\* 0 or 1) and the number of escalations applied
VillainUpdate(v, cfgs, p) ==
    IF v.state = "DEAD" THEN {[v |-> v, cfgs |-> cfgs, proj |-> <<>>, esc |-> 0]}
    ELSE
      LET dx == p.x - v.x
          dy == p.y - v.y
          v1 == [CooldownsSH(v) EXCEPT
                    !.special_cooldown = IF @ > 0 THEN @ - 1 ELSE @,
                    !.projectile_cooldown = IF @ > 0 THEN @ - 1 ELSE @,
                    !.facing_right = dx > 0]
          ph == CheckPhaseTransition(v1, cfgs)
      IN { [v |-> PhysicsSH(r.v), cfgs |-> r.cfgs, proj |-> r.proj, esc |-> ph.esc]
             : r \in ExecuteAI(ph.v, ph.cfgs, p, dx, dy) }

\* Villain.get_attack_rect
VillainAttackRect(v, cfgs) ==
    IF v.current_attack = "NONE" \/ v.attack_frame < 5 THEN NoRect
    ELSE LET r == cfgs[v.villain_type].attack_range IN
         IF v.facing_right
         THEN Rect(v.x + Px(v.width), v.y + Px(20), r, v.height - 40)
         ELSE Rect(v.x - Px(r), v.y + Px(20), r, v.height - 40)

\* Villain.take_damage
VillainTakeDamage(v, cfgs, amount, knockback_dir) ==
    EntityTakeDamage(v, IF v.state = "BLOCKING" /\ cfgs[v.villain_type].can_block
                        THEN amount \div 3 ELSE amount, knockback_dir)

-----------------------------------------------------------------------------
(* sh: Henchman. *)

\* the values 60 + hash(name) % 40 takes in the model
HenchmanHealths == {HENCHMAN_SH.min_health, HENCHMAN_SH.max_health}

\* Henchman.__init__
Henchman(x, y, villain_type, h) ==
    [villain_type |-> villain_type, x |-> x, y |-> y,
     width |-> HENCHMAN_SH.width, height |-> HENCHMAN_SH.height,
     vx |-> 0, vy |-> 0, facing_right |-> TRUE, state |-> "IDLE",
     health |-> h, max_health |-> h,
     invincibility |-> 0, attack_cooldown |-> 0,
     current_attack |-> "NONE", attack_frame |-> 0,
     spawn_x |-> x, ai_timer |-> 0]

\* the velocities sin(clock + spawn_x) * speed * 0.5 takes in the model
WanderVelocities == {-(HENCHMAN_SH.speed \div 2), 0, HENCHMAN_SH.speed \div 2}

\* Henchman.update
HenchmanUpdate(h, p) ==
    IF h.state = "DEAD" THEN {h}
    ELSE
      LET dx == p.x - h.x
          t == h.ai_timer + 1
          h1 == [CooldownsSH(h) EXCEPT !.facing_right = dx > 0,
                                       !.ai_timer = IF t >= 45 THEN 0 ELSE t]
          h2s == IF Abs(dx) < Px(HENCHMAN_SH.attack_range) /\ h1.attack_cooldown <= 0
                 THEN {[h1 EXCEPT !.current_attack = "PUNCH",
                                  !.attack_cooldown = HENCHMAN_SH.attack_cooldown,
                                  !.attack_frame = HENCHMAN_SH.attack_frames,
                                  !.vx = 0]}
                 ELSE IF Abs(dx) < Px(300)
                 THEN {[h1 EXCEPT !.vx = IF dx > 0 THEN HENCHMAN_SH.speed
                                         ELSE -HENCHMAN_SH.speed]}
                 ELSE {[h1 EXCEPT !.vx = w] : w \in WanderVelocities}
      IN { PhysicsSH(h2) : h2 \in h2s }

\* Henchman.get_attack_rect
HenchmanAttackRect(h) ==
    IF h.current_attack = "NONE" \/ h.attack_frame < 4 THEN NoRect
    ELSE IF h.facing_right
         THEN Rect(h.x + Px(h.width), h.y + Px(15),
                   HENCHMAN_SH.attack_range, h.height - 30)
         ELSE Rect(h.x - Px(HENCHMAN_SH.attack_range), h.y + Px(15),
                   HENCHMAN_SH.attack_range, h.height - 30)

-----------------------------------------------------------------------------
(* sh: Game.  The list Game.henchmen is the variable enemies. *)

\* the offsets random.randint(-40, 40) is drawn from in the model
SpawnOffsetsSH == {-40, 0, 40}

\* Game.start_level, lines 2062-2067: the henchmen lists it may build; every
\* henchman of a level has the same health, h
RECURSIVE SpawnHenchmenSH(_, _, _, _, _)
SpawnHenchmenSH(villain_type, num, h, i, n) ==
    IF i >= n THEN {<<>>}
    ELSE LET spacing == (CONFIG_SH.LEVEL_WIDTH - 600) \div (num + 1) IN
         { <<Henchman(Px(350 + i * spacing + off), Px(CONFIG_SH.GROUND_LEVEL - 85),
                      villain_type, h)>> \o rest :
             off \in SpawnOffsetsSH,
             rest \in SpawnHenchmenSH(villain_type, num, h, i + 1, n) }

\* Game.start_level (sh) leaving the projectiles and pickups of the old level
\* in place (the variant C29 is tested against)
StartLevelSH_Littered(w, level_idx) ==
    IF level_idx >= Len(VILLAIN_ORDER)
    THEN {[w EXCEPT !.won = TRUE, !.state = "game_over"]}
    ELSE LET villain_type == VILLAIN_ORDER[level_idx + 1]
             config == w.configs[villain_type]
             fresh == Player("sh", Px(100), Px(CONFIG_SH.GROUND_LEVEL - 120))
             old_score == IF w.player.state = "NONE" THEN 0 ELSE w.player.score
             old_lives == IF w.player.state = "NONE" THEN PLAYER_STATS_SH.MAX_LIVES
                          ELSE w.player.lives
         IN { [w EXCEPT !.level = level_idx,
                        !.player = [fresh EXCEPT !.score = old_score, !.lives = old_lives],
                        !.villain = Villain(Px(CONFIG_SH.LEVEL_WIDTH - 350),
                                            Px(CONFIG_SH.GROUND_LEVEL - config.height - 10),
                                            villain_type, w.configs),
                        !.enemies = hs,
                        !.state = "level_intro",
                        !.intro_timer = 180] :
                hs \in UNION { SpawnHenchmenSH(villain_type, config.num_henchmen, h, 0,
                                               Min(config.num_henchmen, MaxHenchmen))
                               : h \in HenchmanHealths } }

\* Game.start_level (sh)
StartLevelSH(w, level_idx) ==
    IF level_idx >= Len(VILLAIN_ORDER)
    THEN {[w EXCEPT !.won = TRUE, !.state = "game_over"]}
    ELSE LET villain_type == VILLAIN_ORDER[level_idx + 1]
             config == w.configs[villain_type]
             fresh == Player("sh", Px(100), Px(CONFIG_SH.GROUND_LEVEL - 120))
             old_score == IF w.player.state = "NONE" THEN 0 ELSE w.player.score
             old_lives == IF w.player.state = "NONE" THEN PLAYER_STATS_SH.MAX_LIVES
                          ELSE w.player.lives
         IN { [w EXCEPT !.level = level_idx,
                        !.player = [fresh EXCEPT !.score = old_score, !.lives = old_lives],
                        !.villain = Villain(Px(CONFIG_SH.LEVEL_WIDTH - 350),
                                            Px(CONFIG_SH.GROUND_LEVEL - config.height - 10),
                                            villain_type, w.configs),
                        !.enemies = hs,
                        !.projectiles = <<>>,
                        !.pickups = <<>>,
                        !.state = "level_intro",
                        !.intro_timer = 180] :
                hs \in UNION { SpawnHenchmenSH(villain_type, config.num_henchmen, h, 0,
                                               Min(config.num_henchmen, MaxHenchmen))
                               : h \in HenchmanHealths } }

\* Game.update, lines 2139-2148: the villain's update
VillainPhaseSH(w) ==
    IF w.villain.state \in {"NONE", "DEAD"} THEN {w}
    ELSE { [w EXCEPT !.villain = r.v,
                     !.configs = r.cfgs,
                     !.projectiles = @ \o r.proj,
                     !.obs.escalations = @ + r.esc]
           : r \in VillainUpdate(w.villain, w.configs, w.player) }

\* Game.update, lines 2151-2159: the loop over a copy of Game.henchmen;
\* copy[i] is Game.henchmen[k]
RECURSIVE HenchmenLoopSH(_, _, _, _)
HenchmenLoopSH(w, copy, i, k) ==
    IF i > Len(copy) THEN {w}
    ELSE IF copy[i].state = "DEAD"
    THEN LET credit(pks) ==
                 [w EXCEPT !.pickups = pks,
                           !.player.score = @ + HENCHMAN_SH.score_value,
                           !.enemies = RemoveAt(@, k),
                           !.obs.credited = @ + HENCHMAN_SH.score_value]
         IN UNION { HenchmenLoopSH(w1, copy, i + 1, k)
                    : w1 \in {credit(w.pickups),
                              credit(Append(w.pickups,
                                            HealthPickup(copy[i].x, copy[i].y)))} }
    ELSE UNION { HenchmenLoopSH([w EXCEPT !.enemies[k] = h], copy, i + 1, k + 1)
                 : h \in HenchmanUpdate(copy[i], w.player) }

\* Game.update, lines 2162-2176: the villain's death is processed
VillainDeathSH(w) ==
    IF w.villain.state # "DEAD" THEN {w}
    ELSE LET value == w.configs[w.villain.villain_type].score_value
             w1 == [w EXCEPT !.player.score = @ + value,
                             !.obs.credited = @ + value]
         IN IF w1.level + 1 >= Len(VILLAIN_ORDER)
            THEN {[w1 EXCEPT !.won = TRUE, !.state = "game_over"]}
            ELSE { [w2 EXCEPT !.player.score = w1.player.score] :
                     w2 \in StartLevelSH(w1, w1.level + 1) }

\* Game.update, lines 2198-2204: a player projectile hits the first living
\* henchman it overlaps
RECURSIVE BatarangHitSH(_, _, _)
BatarangHitSH(w, pr, j) ==
    IF j > Len(w.enemies) THEN [w |-> w, hit |-> FALSE]
    ELSE LET h == w.enemies[j] IN
         IF h.state # "DEAD" /\ colliderect(ProjectileRect(pr), get_rect(h))
         THEN LET h1 == EntityTakeDamage(h, pr.damage, IF pr.vx > 0 THEN 1 ELSE -1) IN
              [w |-> [w EXCEPT !.enemies[j] = h1,
                               !.player = PlayerRegisterHit("sh", w.player),
                               !.obs.hits = Append(@, ShotHit(pr, "enemy",
                                                          h, h1, w.player, FALSE))],
               hit |-> TRUE]
         ELSE BatarangHitSH(w, pr, j + 1)

\* Game.update, lines 2179-2210: the loop over a copy of Game.projectiles;
\* k is the index of copy[i] in Game.projectiles
RECURSIVE ProjectileLoopSH(_, _, _, _)
ProjectileLoopSH(w, copy, i, k) ==
    IF i > Len(copy) THEN w
    ELSE LET pr == ProjectileUpdate(copy[i])
             d == IF pr.vx > 0 THEN 1 ELSE -1
         IN
         IF ~pr.active
         THEN ProjectileLoopSH([w EXCEPT !.projectiles = RemoveAt(@, k)], copy, i + 1, k)
         ELSE IF pr.from_player
         THEN IF /\ w.villain.state \notin {"NONE", "DEAD"}
                 /\ colliderect(ProjectileRect(pr), get_rect(w.villain))
              THEN LET v1 == VillainTakeDamage(w.villain, w.configs, pr.damage, d) IN
                   ProjectileLoopSH(
                       [w EXCEPT !.villain = v1,
                                 !.player = PlayerRegisterHit("sh", w.player),
                                 !.projectiles[k] = [pr EXCEPT !.active = FALSE],
                                 !.obs.hits = Append(@, ShotHit(pr, "villain", w.villain, v1, w.player,
                                   w.villain.state = "BLOCKING"
                                   /\ w.configs[w.villain.villain_type].can_block))],
                       copy, i + 1, k + 1)
              ELSE LET r == BatarangHitSH(w, pr, 1) IN
                   ProjectileLoopSH([r.w EXCEPT !.projectiles[k] =
                                                    [pr EXCEPT !.active = ~r.hit]],
                                    copy, i + 1, k + 1)
         ELSE IF colliderect(ProjectileRect(pr), get_rect(w.player))
         THEN LET p1 == PlayerTakeDamage("sh", w.player, pr.damage, d) IN
              ProjectileLoopSH([w EXCEPT !.player = p1,
                                         !.projectiles[k] = [pr EXCEPT !.active = FALSE],
                                         !.obs.hits = Append(@, ShotHit(pr, "player", w.player, p1, w.player, FALSE))],
                               copy, i + 1, k + 1)
         ELSE ProjectileLoopSH([w EXCEPT !.projectiles[k] = pr], copy, i + 1, k + 1)

\* the player's melee attack against the villain, voided when the player has
\* lost health earlier in the tick (the variant C26 is tested against)
PlayerMeleeVillainSH_Voided(w, rect) ==
    IF /\ rect # NoRect
       /\ w.villain.state \notin {"NONE", "DEAD"}
       /\ colliderect(rect, get_rect(w.villain))
       /\ \A i \in 1..Len(w.obs.hits) :
              ~(w.obs.hits[i].target = "player"
                /\ w.obs.hits[i].health1 < w.obs.hits[i].health0)
    THEN LET damage == PlayerDamage("sh", w.player)
             v1 == VillainTakeDamage(w.villain, w.configs, damage,
                                     IF w.player.facing_right THEN 1 ELSE -1)
         IN [w EXCEPT !.villain = v1,
                      !.player = PlayerRegisterHit("sh", w.player),
                      !.obs.hits = Append(@, Hit("villain", "melee", damage,
                                                 w.villain, v1, w.player,
                                   w.villain.state = "BLOCKING"
                                   /\ w.configs[w.villain.villain_type].can_block))]
    ELSE w

\* Game.update, lines 2216-2220: the player's melee rectangle against the villain
PlayerMeleeVillainSH(w, rect) ==
    IF /\ rect # NoRect
       /\ w.villain.state \notin {"NONE", "DEAD"}
       /\ colliderect(rect, get_rect(w.villain))
    THEN LET damage == PlayerDamage("sh", w.player)
             v1 == VillainTakeDamage(w.villain, w.configs, damage,
                                     IF w.player.facing_right THEN 1 ELSE -1)
         IN [w EXCEPT !.villain = v1,
                      !.player = PlayerRegisterHit("sh", w.player),
                      !.obs.hits = Append(@, Hit("villain", "melee", damage,
                                                 w.villain, v1, w.player,
                                   w.villain.state = "BLOCKING"
                                   /\ w.configs[w.villain.villain_type].can_block))]
    ELSE w

\* Game.update, lines 2223-2227: the player's melee rectangle against every
\* living henchman
RECURSIVE PlayerMeleeHenchmenSH(_, _, _)
PlayerMeleeHenchmenSH(w, rect, j) ==
    IF rect = NoRect \/ j > Len(w.enemies) THEN w
    ELSE LET h == w.enemies[j] IN
         IF h.state # "DEAD" /\ colliderect(rect, get_rect(h))
         THEN LET damage == PlayerDamage("sh", w.player)
                  h1 == EntityTakeDamage(h, damage, IF w.player.facing_right THEN 1 ELSE -1)
              IN PlayerMeleeHenchmenSH(
                     [w EXCEPT !.enemies[j] = h1,
                               !.player = PlayerRegisterHit("sh", w.player),
                               !.obs.hits = Append(@, Hit("enemy", "melee", damage,
                                                          h, h1, w.player, FALSE))],
                     rect, j + 1)
         ELSE PlayerMeleeHenchmenSH(w, rect, j + 1)

\* Game.update, lines 2230-2237: the villain's attack against the player
VillainMeleeSH(w) ==
    IF /\ w.villain.state \notin {"NONE", "DEAD"}
       /\ colliderect(VillainAttackRect(w.villain, w.configs), get_rect(w.player))
    THEN LET cfg == w.configs[w.villain.villain_type]
             dmg == IF w.villain.current_attack = "SPECIAL" THEN cfg.special_damage
                    ELSE cfg.damage
             p1 == PlayerTakeDamage("sh", w.player, dmg,
                                    IF w.villain.facing_right THEN 1 ELSE -1)
         IN [w EXCEPT !.player = p1,
                      !.obs.hits = Append(@, Hit("player", "villain_melee", dmg,
                                                 w.player, p1, w.player, FALSE))]
    ELSE w

\* the henchmen's attacks against the player with dead henchmen striking too
RECURSIVE HenchmenMeleeSH_Undead(_, _)
HenchmenMeleeSH_Undead(w, j) ==
    IF j > Len(w.enemies) THEN w
    ELSE LET h == w.enemies[j] IN
         IF colliderect(HenchmanAttackRect(h), get_rect(w.player))
         THEN LET p1 == PlayerTakeDamage("sh", w.player, HENCHMAN_SH.damage,
                                         IF h.facing_right THEN 1 ELSE -1)
              IN HenchmenMeleeSH_Undead([w EXCEPT !.player = p1,
                                           !.obs.hits = Append(@, Hit("player", "enemy_melee",
                                                   HENCHMAN_SH.damage, w.player, p1, w.player, FALSE))],
                                 j + 1)
         ELSE HenchmenMeleeSH_Undead(w, j + 1)

\* Game.update, lines 2239-2244: every living henchman's attack against the player
RECURSIVE HenchmenMeleeSH(_, _)
HenchmenMeleeSH(w, j) ==
    IF j > Len(w.enemies) THEN w
    ELSE LET h == w.enemies[j] IN
         IF h.state # "DEAD" /\ colliderect(HenchmanAttackRect(h), get_rect(w.player))
         THEN LET p1 == PlayerTakeDamage("sh", w.player, HENCHMAN_SH.damage,
                                         IF h.facing_right THEN 1 ELSE -1)
              IN HenchmenMeleeSH([w EXCEPT !.player = p1,
                                           !.obs.hits = Append(@, Hit("player", "enemy_melee",
                                                   HENCHMAN_SH.damage, w.player, p1, w.player, FALSE))],
                                 j + 1)
         ELSE HenchmenMeleeSH(w, j + 1)

\* Game.update, lines 2257-2267: the player's death leads to a respawn or,
\* without lives, to the end of the game
DeathCheckSH(w) ==
    IF w.player.state # "DEAD" THEN w
    ELSE IF w.player.lives > 0
    THEN [w EXCEPT !.player = PlayerRespawn("sh", w.player),
                   !.obs.death = "respawn",
                   !.obs.pre_death = <<w.player>>]
    ELSE [w EXCEPT !.won = FALSE, !.state = "game_over", !.obs.death = "over",
                   !.obs.pre_death = <<w.player>>]

\* the reward of the henchmen of a list that are DEAD
RECURSIVE OwedSH(_)
OwedSH(hs) ==
    IF hs = <<>> THEN 0
    ELSE (IF Head(hs).state = "DEAD" THEN HENCHMAN_SH.score_value ELSE 0)
         + OwedSH(Tail(hs))

\* Game.update (sh) in state "playing": the worlds one tick may lead to
UpdateSH(w, keys) ==
    LET owed == OwedSH(w.enemies)
                + (IF w.villain.state = "DEAD"
                   THEN w.configs[w.villain.villain_type].score_value ELSE 0)
        w0 == [w EXCEPT !.obs = [NewObs("tick", w.player) EXCEPT !.owed = owed],
                        !.player = PlayerUpdate("sh", PlayerHandleInput("sh", w.player, keys))]
    IN UNION { UNION { {
           LET w4 == ProjectileLoopSH(w3, w3.projectiles, 1, 1)
               rect == PlayerAttackRect("sh", w4.player)
               w5 == PlayerMeleeHenchmenSH(PlayerMeleeVillainSH(w4, rect), rect, 1)
               w6 == HenchmenMeleeSH(VillainMeleeSH(w5), 1)
               w7 == PickupLoop(w6, w6.pickups, 1, 1)
           IN DeathCheckSH(w7)
           : w3 \in VillainDeathSH(w2) }
           : w2 \in HenchmenLoopSH(w1, w1.enemies, 1, 1) }
           : w1 \in VillainPhaseSH(w0) }

-----------------------------------------------------------------------------
(* The steps of the main loop: Game.handle_events handles one key event,    *)
(* Game.update advances the game by one tick.                               *)

\* the keys pygame.key.get_pressed() reports held during a tick
Keys == {"none", "left", "right"}

\* the game becomes world w after a step of the given kind
Becomes(w) ==
    /\ variant' = w.variant
    /\ state' = w.state
    /\ won' = w.won
    /\ level' = w.level
    /\ intro_timer' = w.intro_timer
    /\ player' = w.player
    /\ villain' = w.villain
    /\ enemies' = w.enemies
    /\ projectiles' = w.projectiles
    /\ pickups' = w.pickups
    /\ configs' = w.configs
    /\ obs' = w.obs

\* Game.start_level of the running program
StartLevel(w, idx) ==
    IF w.variant = "sh" THEN StartLevelSH(w, idx) ELSE StartLevel2D(w, idx)

\* Game.update of the running program in state "playing"
UpdateOf(w, keys) ==
    IF w.variant = "sh" THEN UpdateSH(w, keys) ELSE Update2D(w, keys)

\* the observation of a key event: the events handled since the last update
\* are counted
EventObs(kind) == [NewObs(kind, player) EXCEPT !.events = obs.events + 1]

CanHandleEvent == obs.events < MaxEvents

\* handle_events: RETURN on the title screen
PressReturn ==
    /\ state = "title"
    /\ CanHandleEvent
    /\ \E w \in StartLevel([World EXCEPT !.obs = EventObs("return")], 0) : Becomes(w)
    /\ UNCHANGED ticks

\* handle_events: R on the game-over screen
PressRestart ==
    /\ state = "game_over"
    /\ CanHandleEvent
    /\ \E w \in StartLevel([World EXCEPT !.obs = EventObs("restart")], 0) : Becomes(w)
    /\ UNCHANGED ticks

\* handle_events: P or ESCAPE while playing
PressPause ==
    /\ state = "playing"
    /\ CanHandleEvent
    /\ Becomes([World EXCEPT !.state = "paused", !.obs = EventObs("pause")])
    /\ UNCHANGED ticks

\* handle_events: P while paused
PressResume ==
    /\ state = "paused"
    /\ CanHandleEvent
    /\ Becomes([World EXCEPT !.state = "playing", !.obs = EventObs("resume")])
    /\ UNCHANGED ticks

\* handle_events: SPACE while playing
PressJump ==
    /\ state = "playing" /\ player.state # "NONE"
    /\ CanHandleEvent
    /\ Becomes([World EXCEPT !.player = PlayerJump(variant, player),
                             !.obs = EventObs("jump")])
    /\ UNCHANGED ticks

\* handle_events: Z or J while playing
PressPunch ==
    /\ state = "playing" /\ player.state # "NONE"
    /\ CanHandleEvent
    /\ Becomes([World EXCEPT !.player = PlayerPunch(variant, player),
                             !.obs = EventObs("punch")])
    /\ UNCHANGED ticks

\* handle_events: X or K while playing
PressKick ==
    /\ state = "playing" /\ player.state # "NONE"
    /\ CanHandleEvent
    /\ Becomes([World EXCEPT !.player = PlayerKick(variant, player),
                             !.obs = EventObs("kick")])
    /\ UNCHANGED ticks

\* handle_events: C or L while playing
PressThrow ==
    /\ state = "playing" /\ player.state # "NONE"
    /\ CanHandleEvent
    /\ Becomes([World EXCEPT !.player = PlayerThrow(variant, player),
                             !.projectiles = IF CanThrow(player)
                                             THEN Append(@, Batarang(variant, player))
                                             ELSE @,
                             !.obs = EventObs("throw")])
    /\ UNCHANGED ticks

\* handle_events: SPACE, Z/J, X/K or C/L in a state other than "playing":
\* no branch of the chain handles the key
PressIgnored ==
    /\ state \in {"title", "level_intro", "paused", "game_over"}
    /\ CanHandleEvent
    /\ Becomes([World EXCEPT !.obs = EventObs("ignored")])
    /\ UNCHANGED ticks

\* Game.update that goes on simulating the player while the game is paused
\* (the variant C38 is tested against)
Update_Running ==
    /\ ticks < MaxTicks
    /\ ticks' = ticks + 1
    /\ \/ /\ state = "level_intro"
          /\ Becomes([World EXCEPT !.intro_timer = intro_timer - 1,
                                   !.state = IF intro_timer - 1 <= 0 THEN "playing" ELSE @,
                                   !.obs = NewObs("intro", player)])
       \/ /\ state = "playing" /\ player.state # "NONE"
          /\ \E keys \in Keys :
               \E w \in UpdateOf(World, keys) : Becomes(w)
       \/ /\ state \in {"title", "game_over"}
          /\ Becomes([World EXCEPT !.obs = NewObs("idle", player)])
       \/ /\ state = "paused"
          /\ Becomes([World EXCEPT
                        !.player = PlayerUpdate(variant, PlayerHandleInput(variant, player, "none")),
                        !.obs = NewObs("idle", player)])

\* Game.update
Update ==
    /\ ticks < MaxTicks
    /\ ticks' = ticks + 1
    /\ \/ /\ state = "level_intro"
          /\ Becomes([World EXCEPT !.intro_timer = intro_timer - 1,
                                   !.state = IF intro_timer - 1 <= 0 THEN "playing" ELSE @,
                                   !.obs = NewObs("intro", player)])
       \/ /\ state = "playing" /\ player.state # "NONE"
          /\ \E keys \in Keys :
               \E w \in UpdateOf(World, keys) : Becomes(w)
       \/ /\ state \in {"title", "paused", "game_over"}
          /\ Becomes([World EXCEPT !.obs = NewObs("idle", player)])

Next ==
    \/ PressReturn
    \/ PressRestart
    \/ PressPause
    \/ PressResume
    \/ PressJump
    \/ PressPunch
    \/ PressKick
    \/ PressThrow
    \/ PressIgnored
    \/ Update

-----------------------------------------------------------------------------
(* Initial states.  The program starts on the title screen; a level lasts   *)
(* thousands of ticks, so the exploration also starts from states in the    *)
(* middle of a level.  Each of them is a state a run of the program passes  *)
(* through: the fields that differ from those start_level sets are named,   *)
(* with the history that produces them.                                     *)

\* the game as Game.__init__ leaves it
TitleWorld(g) ==
    [variant |-> g, state |-> "title", won |-> FALSE, level |-> 0, intro_timer |-> 0,
     player |-> NoPlayer, villain |-> NoVillain, enemies |-> <<>>,
     projectiles |-> <<>>, pickups |-> <<>>, configs |-> VILLAIN_CONFIGS,
     obs |-> NewObs("init", NoPlayer)]

\* the player standing on the ground at x (px), facing right, after
\* earlier fights: health lost to hits, a combo count with its window
\* running, lives lost (sh), a score
Fighter(g, x, health, combo, lives, score) ==
    LET y == Px(CONFIG(g).GROUND_LEVEL - PLAYER_STATS(g).HEIGHT) IN
    [Player(g, Px(x), y) EXCEPT !.health = health,
                                !.combo = combo,
                                !.combo_timer = IF combo > 0 THEN 60 ELSE 0,
                                !.lives = lives,
                                !.score = score,
                                !.last_safe_x = IF g = "sh" THEN Px(x) ELSE 0,
                                !.last_safe_y = IF g = "sh" THEN y ELSE 0]

\* an opponent that has walked up to the player: on the ground at x (px),
\* facing left, in AI state "attack" where it has one (ai_state exists for
\* Enemy and Villain), with health left and attack cooldown cd
Near(g, e, x, health, cd) ==
    LET e1 == [e EXCEPT !.x = Px(x),
                        !.y = Px(CONFIG(g).GROUND_LEVEL - e.height),
                        !.facing_right = FALSE,
                        !.health = health,
                        !.ai_timer = 5,
                        !.attack_cooldown = cd]
    IN IF "ai_state" \in DOMAIN e1 THEN [e1 EXCEPT !.ai_state = "attack"] ELSE e1

\* a level of the running game in state "playing"
Playing(g, idx, p, v, es, pks, cfgs) ==
    [TitleWorld(g) EXCEPT !.state = "playing", !.level = idx, !.player = p,
                          !.villain = v, !.enemies = es, !.pickups = pks,
                          !.configs = cfgs]

\* 2d: the boss of level idx
Boss2D(idx) ==
    LET t == LEVEL_CONFIGS[idx + 1].boss_type IN
    Enemy(Px(CONFIG_2D.LEVEL_WIDTH - 300),
          Px(CONFIG_2D.GROUND_LEVEL - ENEMY_CONFIGS[t].height), t)

\* an opponent that has followed the player from its post and is 500 px
\* behind, still in AI state "chase"
Chasing(e) == [e EXCEPT !.x = Px(1500), !.ai_state = "chase", !.ai_timer = 5,
                        !.facing_right = FALSE]

\* 2d: a henchman of type t
Hench2D(t) == Enemy(Px(400), Px(CONFIG_2D.GROUND_LEVEL - ENEMY_CONFIGS[t].height), t)

\* 2d, level 2 (index 1): the player next to a mercenary (health 100) that
\* has taken 0, 1 or 2 punches of a combo (35, then 40); the boss is in
\* pursuit.  The score is that of level 1's boss.
Fight2D ==
    { Playing("2d", 1, Fighter("2d", 1000, 120, c, 0, 5000), NoVillain,
              <<Near("2d", Hench2D("bane_mercenary"), 1055,
                     CASE c = 0 -> 100 [] c = 1 -> 65 [] OTHER -> 25, 30),
                Chasing(Boss2D(1))>>,
              <<>>, VILLAIN_CONFIGS) : c \in 0..2 }
    \cup
    \* the player, after seven hits of 15, faces a mercenary about to strike
    { Playing("2d", 1, Fighter("2d", 1000, 15, 0, 0, 5000), NoVillain,
              <<Near("2d", Hench2D("bane_mercenary"), 1055, 100, 1), Chasing(Boss2D(1))>>,
              <<>>, VILLAIN_CONFIGS) }

\* a pickup dropped 300 ticks ago by an enemy that died at x (px) on the ground
Dropped(g, x, h) == [HealthPickup(Px(x), Px(CONFIG(g).GROUND_LEVEL - h)) EXCEPT
                        !.lifetime = 300]

\* 2d, level 2: the boss (damage 40) has walked up to the player, who has
\* taken two of its hits, and is about to strike.  The henchman is either
\* next to the player with health 25 left, or has died earlier, with or
\* without dropping a pickup just right of the player.
BossFight2D ==
    LET boss == Near("2d", Boss2D(1), 1090, 800, 1)
        p == Fighter("2d", 1000, 40, 2, 0, 5000)
    IN { Playing("2d", 1, p, NoVillain,
                 <<Near("2d", Hench2D("bane_mercenary"), 1055, 25, 30), boss>>,
                 <<>>, VILLAIN_CONFIGS),
         Playing("2d", 1, [p EXCEPT !.score = 5150], NoVillain, <<boss>>,
                 <<>>, VILLAIN_CONFIGS),
         Playing("2d", 1, [p EXCEPT !.score = 5150], NoVillain, <<boss>>,
                 <<Dropped("2d", 1052, 80)>>, VILLAIN_CONFIGS) }

\* an opponent of 2d as the hit that killed it in the previous tick left it
Killed2D(e) == EnemyTakeDamage([e EXCEPT !.health = 25], 45, 1)

\* 2d: the boss of level 2 was killed in the previous tick (the henchman
\* too, or it is alive, or was removed earlier): the next tick starts
\* level 3.  And the same on the last level, where the next tick ends the
\* game; there the player, with health 120 or 20, may face a soldier about
\* to strike.
BossDown2D ==
    { Playing("2d", 1, Fighter("2d", 1000, 120, 3, 0, 5000), NoVillain,
              hs \o <<Killed2D(Near("2d", Boss2D(1), 1090, 25, 30))>>,
              <<>>, VILLAIN_CONFIGS)
        : hs \in { <<>>,
                   <<Near("2d", Hench2D("bane_mercenary"), 1055, 100, 30)>>,
                   <<Killed2D(Near("2d", Hench2D("bane_mercenary"), 1055, 25, 30))>> } }
    \cup
    { Playing("2d", 4, Fighter("2d", 1000, h, 3, 0, 21000), NoVillain,
              <<Near("2d", Hench2D("deathstroke_soldier"), 1055, 90, 1), b>>,
              <<>>, VILLAIN_CONFIGS)
        : h \in {120, 20},
          b \in { Killed2D(Near("2d", Boss2D(4), 1090, 25, 30)),
                  Near("2d", Boss2D(4), 1090, 30, 30) } }

\* the levels start_level(0) builds, with the last tick of the intro left
IntroEnd(g) ==
    { [w EXCEPT !.intro_timer = 1] : w \in StartLevel(TitleWorld(g), 0) }

\* the worlds one tick after the player, holding no key, threw a punch in
\* one of the worlds ws
AfterPunch(ws) ==
    UNION { UpdateOf([w EXCEPT !.player = PlayerPunch(w.variant, @)], "none") : w \in ws }

\* the worlds ws in which the player has a combo, its last hit having landed
\* one tick less than COMBO_WINDOW ago
LateCombo(ws) ==
    { [w EXCEPT !.player.combo_timer = 1] : w \in {v \in ws : v.player.combo > 0} }

\* the worlds one tick after the player, holding no key, threw a batarang
\* in one of the worlds ws
AfterThrow(ws) ==
    UNION { UpdateOf([w EXCEPT !.player = PlayerThrow(w.variant, @),
                               !.projectiles = Append(@, Batarang(w.variant, w.player))],
                     "none") : w \in ws }

\* sh: the villain of level idx where start_level puts it, landed
VillainSH(idx, cfgs) ==
    LET t == VILLAIN_ORDER[idx + 1] IN
    Villain(Px(CONFIG_SH.LEVEL_WIDTH - 350), Px(CONFIG_SH.GROUND_LEVEL - cfgs[t].height),
            t, cfgs)

\* sh: a henchman of the given health that has walked up to the player
HenchSH(idx, x, health, cd) ==
    Near("sh", Henchman(Px(350), Px(CONFIG_SH.GROUND_LEVEL - 85), VILLAIN_ORDER[idx + 1], 60),
         x, health, cd)

\* sh, level 1 (Two-Face, in pursuit, its coin two ticks from its next flip): the
\* player, unhurt or with health 12 left and 3, 1 or 0 lives, next to a
\* henchman about to strike
FightSH ==
    { Playing("sh", 0, Fighter("sh", 1000, pl[1], 0, pl[2], 0),
              [Chasing(VillainSH(0, VILLAIN_CONFIGS)) EXCEPT !.coin_flip_timer = 178],
              <<HenchSH(0, 1050, hh, 1)>>, <<>>, VILLAIN_CONFIGS)
        : pl \in {<<150, 3>>, <<12, 3>>, <<12, 1>>, <<12, 0>>}, hh \in {60} }
    \cup
    \* the player and the henchman each landed a punch in the previous tick
    { Playing("sh", 0,
              PlayerTakeDamage("sh",
                  [PlayerPunch("sh", Fighter("sh", 1000, 150, 0, 3, 0)) EXCEPT
                      !.attack_duration = @ - 1, !.punch_cd = @ - 1],
                  HENCHMAN_SH.damage, -1),
              [Chasing(VillainSH(0, VILLAIN_CONFIGS)) EXCEPT !.coin_flip_timer = 178],
              <<EntityTakeDamage(
                  [HenchSH(0, 1050, 60, HENCHMAN_SH.attack_cooldown) EXCEPT
                      !.current_attack = "PUNCH",
                      !.attack_frame = HENCHMAN_SH.attack_frames],
                  PLAYER_STATS_SH.PUNCH_DAMAGE, 1)>>,
              <<>>, VILLAIN_CONFIGS) }
    \cup
    \* the henchman has health 25 left after a punch; a pickup lies just
    \* right of the player
    { Playing("sh", 0, Fighter("sh", 1000, 12, 1, 1, 150),
              [Chasing(VillainSH(0, VILLAIN_CONFIGS)) EXCEPT !.coin_flip_timer = 178],
              <<HenchSH(0, 1050, 25, 1)>>, <<Dropped("sh", 1062, 75)>>, VILLAIN_CONFIGS) }

\* the table after a Bane of an earlier level 6 took its Venom
AfterVenom(cfgs) ==
    [CheckPhaseTransition([VillainSH(5, cfgs) EXCEPT !.health = 400], cfgs).cfgs
        EXCEPT !["bane"].aggression = 95]

\* the score when level idx + 1 starts without a henchman killed
ScoreBefore(idx) ==
    SumSeq([i \in 1..idx |-> VILLAIN_CONFIGS[VILLAIN_ORDER[i]].score_value])

\* a villain as a punch of 35 landing in the previous tick left it
JustHit(v, cfgs) == VillainTakeDamage(v, cfgs, 35, 1)

\* sh, level 6 (Bane): Bane has walked up to the player and is about to
\* strike.  It is unhurt; or just above half of its health, before or after
\* the punch that takes it below; or in its second phase.  When the punch
\* has landed, the process may be in its second game, the first having been
\* lost after Bane took its Venom.
BaneSH ==
    LET p == Fighter("sh", 1000, 150, 0, 3, ScoreBefore(5))
        v == Near("sh", VillainSH(5, VILLAIN_CONFIGS), 1080, 510, 1)
        again == AfterVenom(VILLAIN_CONFIGS)
    IN { Playing("sh", 5, p, [v EXCEPT !.health = 1000], <<>>, <<>>, VILLAIN_CONFIGS),
         Playing("sh", 5, p, v, <<>>, <<>>, VILLAIN_CONFIGS),
         Playing("sh", 5, p, JustHit(v, VILLAIN_CONFIGS), <<>>, <<>>, VILLAIN_CONFIGS),
         Playing("sh", 5, p, JustHit(v, again), <<>>, <<>>, again),
         Playing("sh", 5, p, [v EXCEPT !.health = 400, !.phase = 2, !.venom_active = TRUE],
                 <<>>, <<>>, again) }

\* a villain as the hit that killed it in the previous tick left it
KilledSH(v, cfgs) == VillainTakeDamage([v EXCEPT !.health = 25, !.state = "IDLE"], cfgs, 45, 1)

\* sh, level 7 (Deathstroke, the last): Deathstroke next to the player, a
\* punch having taken it below the threshold of its second phase, or of its
\* third, or in its third with health 30 left; or killed in the previous
\* tick, while a henchman is about to strike the player, who has health 12
\* left and 1 or 0 lives.
DeathstrokeSH ==
    LET v == Near("sh", VillainSH(6, VILLAIN_CONFIGS), 1080, 570, 1)
        third == CheckPhaseTransition([v EXCEPT !.health = 200, !.phase = 2],
                                      VILLAIN_CONFIGS).cfgs
        p == Fighter("sh", 1000, 150, 0, 3, ScoreBefore(6))
    IN { Playing("sh", 6, p, JustHit(v, VILLAIN_CONFIGS), <<>>, <<>>, VILLAIN_CONFIGS),
         Playing("sh", 6, p, JustHit([v EXCEPT !.health = 290, !.phase = 2], VILLAIN_CONFIGS),
                 <<>>, <<>>, VILLAIN_CONFIGS),
         Playing("sh", 6, p, [v EXCEPT !.health = 30, !.phase = 3], <<>>, <<>>, third),
         \* unhurt and in its first phase, 20 ticks from its next strike
         Playing("sh", 6, p, [v EXCEPT !.health = 850, !.attack_cooldown = 20],
                 <<>>, <<>>, VILLAIN_CONFIGS) }
       \cup
       { Playing("sh", 6, Fighter("sh", 1000, 12, 3, l, ScoreBefore(6)),
                 KilledSH([v EXCEPT !.phase = 3], third),
                 <<HenchSH(6, 1050, 60, 1)>>, <<>>, third)
           : l \in {0, 1} }

\* sh: the villains of levels 2 to 5 (Joker, Penguin, Scarecrow, Killer
\* Croc) next to the unhurt player; Killer Croc again; and Scarecrow next
\* to a player with health 12 left and 1 or 0 lives
OthersSH ==
    { Playing("sh", idx, Fighter("sh", 1000, 150, 0, 3, ScoreBefore(idx)),
              Near("sh", VillainSH(idx, VILLAIN_CONFIGS), 1070,
                   VILLAIN_CONFIGS[VILLAIN_ORDER[idx + 1]].health, 1),
              <<>>, <<>>, VILLAIN_CONFIGS)
        : idx \in 1..4 }
    \cup
    \* Killer Croc within reach of its grab, 20 ticks from its next strike
    { Playing("sh", 4, Fighter("sh", 1000, 150, 0, 3, ScoreBefore(4)),
              Near("sh", VillainSH(4, VILLAIN_CONFIGS), 1065,
                   VILLAIN_CONFIGS["croc"].health, 20),
              <<>>, <<>>, VILLAIN_CONFIGS) }
    \cup
    { Playing("sh", 3, Fighter("sh", 1000, 12, 0, l, ScoreBefore(3)),
              Near("sh", VillainSH(3, VILLAIN_CONFIGS), 1070,
                   VILLAIN_CONFIGS["scarecrow"].health, 1),
              <<>>, <<>>, VILLAIN_CONFIGS)
        : l \in {0, 1} }

\* the projectiles the opponents of variant g fire at a player 300 px away
Shots(g) ==
    LET p == Fighter(g, 1000, PLAYER_STATS(g).MAX_HEALTH, 0, PLAYER_STATS(g).MAX_LIVES, 0)
        aim(e) == [Near(g, e, 1300, e.health, 30) EXCEPT !.projectile_cooldown = 0]
        fired == IF g = "sh"
                 THEN UNION { {r.proj : r \in VillainUpdate(aim(VillainSH(i, VILLAIN_CONFIGS)),
                                                            VILLAIN_CONFIGS, p)}
                              : i \in 0..(Len(VILLAIN_ORDER) - 1) }
                 ELSE UNION { {r.proj : r \in EnemyUpdate(aim(Hench2D(t)), p)}
                              : t \in DOMAIN ENEMY_CONFIGS }
    IN { f[1] : f \in {h \in fired : h # <<>>} }

\* a boss that is not the last was killed in the previous tick (level 1 in
\* 2d, level 4 in sh), while a henchman is about to strike the player, a
\* pickup lies at the player's feet and a shot of the boss is one tick from
\* the player, who has health 60 left: the next tick starts the next level
Cleared(g) ==
    LET p == Fighter(g, 1000, 60, 2, 2, IF g = "sh" THEN ScoreBefore(3) ELSE 0)
        shots == { [f EXCEPT !.x = Px(1070), !.traveled = Px(230)] : f \in Shots(g) }
        near == { f \in shots : f.damage = IF g = "sh" THEN VILLAIN_CONFIGS["scarecrow"].projectile_damage
                                           ELSE ENEMY_CONFIGS["joker"].projectile_damage }
    IN { [ (IF g = "sh"
            THEN Playing(g, 3, p,
                         KilledSH(Near(g, VillainSH(3, VILLAIN_CONFIGS), 1090, 25, 30),
                                  VILLAIN_CONFIGS),
                         <<HenchSH(3, 1050, 60, 1)>>, <<Dropped(g, 1010, 25)>>,
                         VILLAIN_CONFIGS)
            ELSE Playing(g, 0, p, NoVillain,
                         <<Near(g, Hench2D("joker_thug"), 1055, 60, 1),
                           Killed2D(Near(g, Boss2D(0), 1090, 25, 30))>>,
                         <<Dropped(g, 1010, 25)>>, VILLAIN_CONFIGS))
           EXCEPT !.projectiles = <<f>> ] : f \in near }

\* level 1 at the edges of the world: the player has walked back to the left
\* edge (2 px from it), the opponents still at their posts; or the boss or
\* villain, in AI state "retreat" since its last decision, has backed off to
\* 1 px from the right edge, the player 400 px away
Cornered(g) ==
    LET p == Fighter(g, 2, PLAYER_STATS(g).MAX_HEALTH, 0, PLAYER_STATS(g).MAX_LIVES, 0)
        q == [p EXCEPT !.x = Px(CONFIG(g).LEVEL_WIDTH - 500)]
        back(e) == [e EXCEPT !.x = Px(CONFIG(g).LEVEL_WIDTH - e.width - 1),
                             !.ai_state = "retreat", !.ai_timer = 5,
                             !.facing_right = FALSE]
    IN IF g = "sh"
       THEN { Playing(g, 0, p, VillainSH(0, VILLAIN_CONFIGS), <<>>, <<>>, VILLAIN_CONFIGS),
              Playing(g, 0, q, back(VillainSH(0, VILLAIN_CONFIGS)), <<>>, <<>>,
                      VILLAIN_CONFIGS) }
       ELSE { Playing(g, 0, p, NoVillain, <<Boss2D(0)>>, <<>>, VILLAIN_CONFIGS),
              Playing(g, 0, q, NoVillain, <<back(Boss2D(0))>>, <<>>, VILLAIN_CONFIGS) }

\* the player n ticks later, no key held and nothing hitting it
RECURSIVE Later(_, _, _)
Later(g, p, n) ==
    IF n = 0 THEN p
    ELSE LET q == PlayerUpdate(g, PlayerHandleInput(g, p, "none"))
         IN IF q.state = "DEAD" THEN q ELSE Later(g, q, n - 1)

\* level 1 with the opponents far away and the player in the air: 1 or 46
\* ticks after a jump from the ground (it lands in the 47th), or 1 or 50
\* ticks after the second jump, made 23 ticks after the first at the top of
\* its flight (it lands in the 51st, falling at the terminal velocity)
Airborne(g) ==
    LET p == Fighter(g, 1000, PLAYER_STATS(g).MAX_HEALTH, 0, PLAYER_STATS(g).MAX_LIVES, 0)
        far == IF g = "sh"
               THEN Playing(g, 0, p, Chasing(VillainSH(0, VILLAIN_CONFIGS)), <<>>, <<>>,
                            VILLAIN_CONFIGS)
               ELSE Playing(g, 0, p, NoVillain, <<Chasing(Boss2D(0))>>, <<>>,
                            VILLAIN_CONFIGS)
        top == Later(g, PlayerJump(g, p), 23)
    IN { [far EXCEPT !.player = Later(g, PlayerJump(g, p), n)] : n \in {1, 46} }
       \cup
       { [far EXCEPT !.player = Later(g, PlayerJump(g, top), n)] : n \in {1, 50} }

\* one tick after an opponent went into action: a mercenary (2d) or Killer
\* Croc (sh, level 5) struck at the player next to it, or an opponent that
\* shoots fired at the player 300 px away; its attack and its cooldowns
\* are running
Engaged(g) ==
    LET p == Fighter(g, 1000, PLAYER_STATS(g).MAX_HEALTH, 0, PLAYER_STATS(g).MAX_LIVES, 0)
        aim(e) == [Near(g, e, 1300, e.health, 30) EXCEPT !.projectile_cooldown = 0]
        before ==
          IF g = "sh"
          THEN { Playing(g, 4, [p EXCEPT !.score = ScoreBefore(4)],
                         Near(g, VillainSH(4, VILLAIN_CONFIGS), 1065,
                              VILLAIN_CONFIGS["croc"].health, 20),
                         <<>>, <<>>, VILLAIN_CONFIGS),
                 Playing(g, 1, [p EXCEPT !.score = ScoreBefore(1)],
                         aim(VillainSH(1, VILLAIN_CONFIGS)), <<>>, <<>>, VILLAIN_CONFIGS) }
          ELSE { Playing(g, 1, [p EXCEPT !.score = 5000], NoVillain,
                         <<Near(g, Hench2D("bane_mercenary"), 1055, 100, 1)>>, <<>>,
                         VILLAIN_CONFIGS),
                 Playing(g, 0, p, NoVillain, <<aim(Boss2D(0))>>, <<>>, VILLAIN_CONFIGS) }
    IN UNION { UpdateOf(w, "none") : w \in before }

\* level 1 with the opponents far away: the player started a punch, a kick
\* or a throw (its batarang has hit or flown out since) as many ticks ago
\* as leave that attack's cooldown at 1, or at 0, or its timer at 1
Recovering(g) ==
    LET p == Fighter(g, 1000, PLAYER_STATS(g).MAX_HEALTH, 0, PLAYER_STATS(g).MAX_LIVES, 0)
        far == IF g = "sh"
               THEN Playing(g, 0, p, Chasing(VillainSH(0, VILLAIN_CONFIGS)), <<>>, <<>>,
                            VILLAIN_CONFIGS)
               ELSE Playing(g, 0, p, NoVillain, <<Chasing(Boss2D(0))>>, <<>>,
                            VILLAIN_CONFIGS)
    IN { [far EXCEPT !.player = Later(g, PlayerPunch(g, p),
                                      PLAYER_STATS(g).PUNCH_COOLDOWN - d)] : d \in {0, 1} }
       \cup
       { [far EXCEPT !.player = Later(g, PlayerKick(g, p),
                                      PLAYER_STATS(g).KICK_COOLDOWN - d)] : d \in {0, 1} }
       \cup
       { [far EXCEPT !.player = Later(g, PlayerThrow(g, p),
                                      PLAYER_STATS(g).BATARANG_COOLDOWN - d)] : d \in {0, 1} }
       \cup
       { [far EXCEPT !.player = Later(g, PlayerPunch(g, p),
                                      PLAYER_STATS(g).PUNCH_DURATION - 1)],
         [far EXCEPT !.player = Later(g, PlayerKick(g, p),
                                      PLAYER_STATS(g).KICK_DURATION - 1)],
         [far EXCEPT !.player = Later(g, PlayerThrow(g, p),
                                      PLAYER_STATS(g).BATARANG_DURATION - 1)] }

Scenes2D ==
    {TitleWorld("2d")} \cup IntroEnd("2d") \cup Fight2D \cup AfterPunch(Fight2D)
    \cup BossFight2D \cup BossDown2D \cup Recovering("2d") \cup LateCombo(Fight2D)
    \cup AfterThrow(Fight2D) \cup Cleared("2d") \cup Cornered("2d")
    \cup Airborne("2d") \cup Engaged("2d")

ScenesSH ==
    {TitleWorld("sh")} \cup IntroEnd("sh") \cup FightSH \cup BaneSH \cup DeathstrokeSH
    \cup OthersSH \cup Recovering("sh") \cup LateCombo(FightSH)
    \cup AfterThrow(FightSH) \cup Cleared("sh") \cup Cornered("sh")
    \cup Airborne("sh") \cup Engaged("sh")

Init ==
    /\ ticks = 0
    /\ \E w \in Scenes2D \cup ScenesSH :
         /\ variant = w.variant
         /\ state = w.state
         /\ won = w.won
         /\ level = w.level
         /\ intro_timer = w.intro_timer
         /\ player = w.player
         /\ villain = w.villain
         /\ enemies = w.enemies
         /\ projectiles = w.projectiles
         /\ pickups = w.pickups
         /\ configs = w.configs
         /\ obs = NewObs("init", w.player)

Spec == Init /\ [][Next]_vars

-----------------------------------------------------------------------------
(* The damage of the player's attacks, for every combo count: a fight in   *)
(* which hit after hit is landed.                                           *)

\* the largest combo count a fight of the damage specification starts with
MaxCombo == 24

\* a fight in which the player, with a combo count of c, has just started
\* the attack a ("PUNCH" or "KICK") next to an opponent
DamageWorld(g, a, c) ==
    LET p == Fighter(g, 1000, PLAYER_STATS(g).MAX_HEALTH, c, PLAYER_STATS(g).MAX_LIVES, 0)
        q == IF a = "PUNCH" THEN PlayerPunch(g, p) ELSE PlayerKick(g, p)
    IN IF g = "sh"
       THEN Playing(g, 0, q, Chasing(VillainSH(0, VILLAIN_CONFIGS)),
                    <<HenchSH(0, 1050, HENCHMAN_SH.max_health, HENCHMAN_SH.attack_cooldown)>>,
                    <<>>, VILLAIN_CONFIGS)
       ELSE Playing(g, 1, q, NoVillain,
                    <<Near(g, Hench2D("bane_mercenary"), 1055, 100, 30),
                      Chasing(Boss2D(1))>>,
                    <<>>, VILLAIN_CONFIGS)

InitDamage ==
    /\ ticks = 0
    /\ \E g \in {"2d", "sh"}, a \in {"PUNCH", "KICK"}, c \in 0..MaxCombo :
         LET w == DamageWorld(g, a, c) IN
         /\ variant = w.variant
         /\ state = w.state
         /\ won = w.won
         /\ level = w.level
         /\ intro_timer = w.intro_timer
         /\ player = w.player
         /\ villain = w.villain
         /\ enemies = w.enemies
         /\ projectiles = w.projectiles
         /\ pickups = w.pickups
         /\ configs = w.configs
         /\ obs = NewObs("init", w.player)

\* Game.update, the player's melee hit: the damage is asked for, then the
\* hit is registered
LandHit ==
    /\ player.combo <= MaxCombo
    /\ obs' = [obs EXCEPT !.kind = "damage",
                          !.value = <<PlayerDamage(variant, player)>>]
    /\ player' = PlayerRegisterHit(variant, player)
    /\ UNCHANGED <<variant, state, won, level, intro_timer, villain, enemies,
                   projectiles, pickups, configs, ticks>>

NextDamage == LandHit

SpecDamage == InitDamage /\ [][NextDamage]_vars

-----------------------------------------------------------------------------
(* The flight of one projectile: every projectile the player or an opponent *)
(* can launch, updated tick after tick, and deactivated by a hit after any  *)
(* of its updates.                                                          *)

\* the batarangs the player of variant g throws, to the right and to the left
Batarangs(g) ==
    LET p == Fighter(g, 1000, PLAYER_STATS(g).MAX_HEALTH, 0, PLAYER_STATS(g).MAX_LIVES, 0)
    IN { Batarang(g, [p EXCEPT !.facing_right = f]) : f \in BOOLEAN }

InitFlight ==
    /\ ticks = 0
    /\ \E g \in {"2d", "sh"} :
         \E pr \in Shots(g) \cup Batarangs(g) :
           LET w == DamageWorld(g, "PUNCH", 0) IN
           /\ variant = w.variant
           /\ state = w.state
           /\ won = w.won
           /\ level = w.level
           /\ intro_timer = w.intro_timer
           /\ player = w.player
           /\ villain = w.villain
           /\ enemies = w.enemies
           /\ projectiles = <<pr>>
           /\ pickups = w.pickups
           /\ configs = w.configs
           /\ obs = NewObs("launch", w.player)

\* Game.update, the projectile loop: projectile.update()
Fly ==
    /\ projectiles' = <<ProjectileUpdate(projectiles[1])>>
    /\ obs' = [obs EXCEPT !.kind = "fly"]
    /\ UNCHANGED <<variant, state, won, level, intro_timer, player, villain, enemies,
                   pickups, configs, ticks>>

\* Game.update, the projectile loop: the projectile, still active after its
\* update, overlaps a target: projectile.active = False
Strike ==
    /\ obs.kind = "fly" /\ projectiles[1].active
    /\ projectiles' = <<[projectiles[1] EXCEPT !.active = FALSE]>>
    /\ obs' = [obs EXCEPT !.kind = "strike"]
    /\ UNCHANGED <<variant, state, won, level, intro_timer, player, villain, enemies,
                   pickups, configs, ticks>>

NextFlight == Fly \/ Strike

SpecFlight == InitFlight /\ [][NextFlight]_vars

-----------------------------------------------------------------------------
(* One exchange with an opponent that can block, followed for longer than   *)
(* an AI decision cycle: the player has thrown a punch next to the opponent *)
(* and presses nothing afterwards.                                          *)

\* Enemy.update / Villain._execute_ai: the AI state is decided anew when
\* ai_timer reaches 30
AI_CYCLE == 30

\* the ticks an exchange is followed for
MaxWait == 48

\* sh: Two-Face, Killer Croc, Bane or Deathstroke has launched its attack in
\* the last tick at a player that respawned next to it 20 ticks ago (2 lives
\* left, invincible for 100 more ticks); the player has just pressed punch.
\* 2d: Bane or Deathstroke struck the player 16 ticks ago (health 80 left,
\* 44 ticks of invincibility left); the player has just pressed punch.
Exchanges ==
    { LET t == VILLAIN_ORDER[idx + 1]
          p == [Fighter("sh", 1000, 150, 0, 2, ScoreBefore(idx))
                   EXCEPT !.invincibility = 100]
          v == Near("sh", VillainSH(idx, VILLAIN_CONFIGS), 1065,
                    VILLAIN_CONFIGS[t].health, VILLAIN_CONFIGS[t].attack_cooldown)
      IN Playing("sh", idx, PlayerPunch("sh", p),
                 [v EXCEPT !.current_attack = "PUNCH", !.attack_frame = 15,
                           !.state = "PUNCHING"],
                 <<>>, <<>>, VILLAIN_CONFIGS)
      : idx \in {0, 4, 5, 6} }
    \cup
    { LET t == LEVEL_CONFIGS[idx + 1].boss_type
          p == [Fighter("2d", 1000, 80, 0, 0, IF idx = 1 THEN 5000 ELSE 21000)
                   EXCEPT !.invincibility = 44]
      IN Playing("2d", idx, PlayerPunch("2d", p), NoVillain,
                 <<Near("2d", Boss2D(idx), 1065, ENEMY_CONFIGS[t].health,
                        ENEMY_CONFIGS[t].attack_cooldown - 16)>>,
                 <<>>, VILLAIN_CONFIGS)
      : idx \in {1, 4} }

InitBlock ==
    /\ ticks = 0
    /\ \E w \in Exchanges :
         /\ variant = w.variant
         /\ state = w.state
         /\ won = w.won
         /\ level = w.level
         /\ intro_timer = w.intro_timer
         /\ player = w.player
         /\ villain = w.villain
         /\ enemies = w.enemies
         /\ projectiles = w.projectiles
         /\ pickups = w.pickups
         /\ configs = w.configs
         /\ obs = [NewObs("punch", w.player) EXCEPT !.events = 1]

\* Game.update in state "playing", no key held
Wait ==
    /\ ticks < MaxWait
    /\ state = "playing"
    /\ ticks' = ticks + 1
    /\ \E w \in UpdateOf(World, "none") : Becomes(w)

SpecBlock == InitBlock /\ [][Wait]_vars

-----------------------------------------------------------------------------
(* The game left running: the player has started an attack and presses      *)
(* nothing afterwards, and the ticks go on for as long as the game is       *)
(* played (up to MaxRun of them).                                           *)

\* level 1 with the opponents 500 px to the right, in pursuit: the player
\* has just thrown a batarang, to the right or to the left, while a shot
\* of an opponent is in the air; or one of the exchanges above
Volleys ==
    UNION { LET p == Fighter(g, 1000, PLAYER_STATS(g).MAX_HEALTH, 0,
                             PLAYER_STATS(g).MAX_LIVES, 0)
                far == IF g = "sh"
                       THEN Playing(g, 0, p, Chasing(VillainSH(0, VILLAIN_CONFIGS)),
                                    <<>>, <<>>, VILLAIN_CONFIGS)
                       ELSE Playing(g, 0, p, NoVillain, <<Chasing(Boss2D(0))>>, <<>>,
                                    VILLAIN_CONFIGS)
            IN { [far EXCEPT !.player = PlayerThrow(g, [p EXCEPT !.facing_right = r]),
                             !.projectiles = <<Batarang(g, [p EXCEPT !.facing_right = r]), f>>]
                   : r \in BOOLEAN, f \in Shots(g) }
            : g \in {"2d", "sh"} }
    \cup Exchanges

InitRun ==
    /\ ticks = 0
    /\ \E w \in Volleys :
         /\ variant = w.variant
         /\ state = w.state
         /\ won = w.won
         /\ level = w.level
         /\ intro_timer = w.intro_timer
         /\ player = w.player
         /\ villain = w.villain
         /\ enemies = w.enemies
         /\ projectiles = w.projectiles
         /\ pickups = w.pickups
         /\ configs = w.configs
         /\ obs = [NewObs("throw", w.player) EXCEPT !.events = 1]

\* the ticks the running game is followed for
MaxRun == 64

\* Game.run: the main loop calls update once in every frame
Frame ==
    /\ ticks < MaxRun
    /\ state = "playing"
    /\ ticks' = ticks + 1

\* Game.update in state "playing", no key held
Play ==
    /\ Frame
    /\ \E w \in UpdateOf(World, "none") : Becomes(w)

\* the loop does not stop while the game is played: a frame that can be
\* played is played (every Frame step of the game is a Play step)
SpecRun == InitRun /\ [][Play]_vars /\ WF_ticks(Frame)

-----------------------------------------------------------------------------
(* Properties. *)

\* the take_damage calls of the last tick
Hits == {obs.hits[i] : i \in 1..Len(obs.hits)}

\* C1: for every actor (player, boss or villain, henchman) of either
\* variant, 0 <= health <= max_health in every reachable state.
C1_HealthInRange ==
    /\ player.state # "NONE" => player.health \in 0..player.max_health
    /\ villain.state # "NONE" => villain.health \in 0..villain.max_health
    /\ \A i \in 1..Len(enemies) : enemies[i].health \in 0..enemies[i].max_health

\* C1 is exercised: a hit asked for more than the health its target had left
\* and left it at 0
C1_ClampedAtZero ==
    \E h \in Hits : h.inv0 = 0 /\ h.amount > h.health0 /\ h.health0 > 0 /\ h.health1 = 0

\* C2 (as claimed): at the end of every tick, for every actor, health is 0
\* if and only if its state is DEAD.
C2_DeadIffZeroHealth ==
    obs.kind = "tick" =>
      /\ player.state = "DEAD" <=> player.health = 0
      /\ villain.state # "NONE" => (villain.state = "DEAD" <=> villain.health = 0)
      /\ \A i \in 1..Len(enemies) : enemies[i].state = "DEAD" <=> enemies[i].health = 0

\* C2 fails: the tick that ends the game leaves the player DEAD with the
\* health a pickup gave it after its death
C2_DeadPlayerHealed ==
    /\ obs.kind = "tick" /\ state = "game_over"
    /\ player.state = "DEAD" /\ player.health > 0

\* C3: take_damage on an actor whose invincibility timer is > 0 changes
\* nothing of the actor: health, state, velocity, the timer and, for the
\* player, combo count and combo timer are as before, for every such call
\* of a tick.
C3_NoOpWhileInvincible ==
    \A h \in Hits : h.inv0 > 0 => h.same

\* C3 is exercised: the player, invincible and with a combo running, was
\* struck, and so was an invincible opponent
C3_InvincibleStruck ==
    /\ \E h \in Hits : h.target = "player" /\ h.inv0 > 0 /\ h.combo0 > 0
    /\ \E h \in Hits : h.target # "player" /\ h.inv0 > 0

\* C4 (as claimed): no step of the running program changes a field of the
\* shared table of archetype configurations.
C4_ConfigTableUnchanged == [][configs' = configs]_vars

\* C4 fails: a Bane created from a table that an earlier Bane had already
\* escalated has escalated it once more
C4_TableEscalatedTwice ==
    /\ obs.kind = "tick" /\ obs.escalations = 1
    /\ villain.state # "NONE" /\ villain.villain_type = "bane"
    /\ configs["bane"].damage > (VILLAIN_CONFIGS["bane"].damage * 3) \div 2

\* C5: the phase of a villain is between 1 and the phases configured for
\* its archetype; a new villain starts in phase 1; over a tick of one
\* villain the phase never decreases and rises by at most one step, as
\* often as an escalation is applied; Bane escalates exactly when it is
\* updated in phase 1 below half of its health, and damage (x 1.5) and
\* speed (x 1.3) change with that escalation and with no other tick.
C5_PhaseEscalatesOnce ==
    /\ [](variant = "sh" /\ villain.state # "NONE" =>
            villain.phase \in 1..configs[villain.villain_type].phases)
    /\ [][LET same == /\ variant = "sh" /\ obs'.kind = "tick" /\ level' = level
                      /\ villain.state # "NONE" /\ villain'.state # "NONE"
              cfg == configs["bane"]
              up == villain'.phase > villain.phase
              bane ==
                  /\ up <=> /\ villain.state # "DEAD" /\ villain.phase = 1
                            /\ 2 * villain.health < villain.max_health
                  /\ configs'["bane"].damage =
                         IF up THEN (cfg.damage * 3) \div 2 ELSE cfg.damage
                  /\ configs'["bane"].speed =
                         IF up THEN Scale(cfg.speed, 13, 10) ELSE cfg.speed
              tick ==
                  /\ villain'.phase >= villain.phase
                  /\ obs'.escalations = villain'.phase - villain.phase
                  /\ villain.villain_type = "bane" => bane
              fresh ==
                  (variant = "sh" /\ villain' # villain /\ villain'.state # "NONE")
                      => villain'.phase = 1
          IN IF same THEN tick ELSE fresh]_vars

\* C5 is exercised: Bane, taken below half of its health, has entered its
\* second phase in this tick
C5_BaneEscalated ==
    /\ obs.kind = "tick" /\ obs.escalations = 1
    /\ villain.state # "NONE" /\ villain.villain_type = "bane"
    /\ villain.phase = 2 /\ villain.venom_active
    /\ 2 * villain.health < villain.max_health

\* C6 (as claimed): in the lives variant, a player found DEAD by the
\* end-of-tick check with n > 0 lives has, after the tick, n - 1 lives, full
\* health, the position last_safe_x / last_safe_y, no velocity, no combo,
\* no attack, invincibility RESPAWN_INVINCIBILITY (longer than the window
\* after a hit) and state IDLE, and the game is in state "playing".
C6_RespawnKeepsPlaying ==
    (variant = "sh" /\ obs.death = "respawn") =>
        LET d == obs.pre_death[1] IN
        /\ d.state = "DEAD" /\ d.lives > 0
        /\ player.lives = d.lives - 1
        /\ player.health = player.max_health
        /\ player.x = d.last_safe_x /\ player.y = d.last_safe_y
        /\ player.vx = 0 /\ player.vy = 0
        /\ player.combo = 0 /\ player.combo_timer = 0
        /\ player.current_attack = "NONE" /\ player.attack_duration = 0
        /\ player.invincibility = PLAYER_STATS_SH.RESPAWN_INVINCIBILITY
        /\ player.invincibility > PLAYER_STATS_SH.HIT_INVINCIBILITY
        /\ player.state = "IDLE"
        /\ state = "playing"

\* C6 fails: the player was respawned in the tick that had already ended
\* the game with the last villain's death
C6_RespawnedAfterVictory ==
    /\ variant = "sh" /\ obs.death = "respawn"
    /\ player.state = "IDLE" /\ player.health = player.max_health
    /\ state = "game_over" /\ won

\* C7: lives is never negative; a tick takes one life when it respawns the
\* player and none otherwise; a player found DEAD with no lives left is
\* left as it was found, DEAD, and that tick ends in state game_over with
\* won = FALSE; no tick of the lives variant ends with the player DEAD
\* otherwise.
C7_LivesAndTerminalDeath ==
    variant = "sh" =>
        /\ player.state # "NONE" => player.lives >= 0
        /\ obs.kind = "tick" =>
              player.lives = obs.lives0 - (IF obs.death = "respawn" THEN 1 ELSE 0)
        /\ obs.death = "over" =>
              /\ obs.pre_death[1].lives = 0
              /\ player = obs.pre_death[1]
              /\ player.state = "DEAD"
              /\ state = "game_over" /\ won = FALSE
        /\ (obs.kind = "tick" /\ player.state = "DEAD") => obs.death = "over"

\* C7 is exercised: the player died with no lives left and the game is over
C7_DiedWithoutLives ==
    /\ variant = "sh" /\ obs.death = "over"
    /\ player.lives = 0 /\ player.state = "DEAD"
    /\ state = "game_over" /\ ~won

C9_DamageFormula ==
    (obs.kind = "damage" /\ obs.value # <<>>) =>
        LET c == player.combo - 1
            d == obs.value[1]
            next == PlayerDamage(variant, player)
            base == IF player.current_attack = "PUNCH"
                    THEN PLAYER_STATS(variant).PUNCH_DAMAGE
                    ELSE PLAYER_STATS(variant).KICK_DAMAGE
            m == Min(100 + 15 * c, 250)
        IN /\ 100 * d <= base * m /\ base * m < 100 * (d + 1)
           /\ next >= d
           /\ c >= 10 => next = d

\* C9 is exercised: a kick landed at combo count 10, where the cap is
\* reached, dealt floor(45 * 2.5) = 112
C9_KickAtCap ==
    /\ obs.kind = "damage" /\ player.current_attack = "KICK"
    /\ player.combo = 11 /\ obs.value = <<112>>

\* C10 (as claimed): the tick that processes dead opponents credits exactly
\* their rewards, and no opponent brought to health 0 is left without its
\* death ever being processed: no tick that kills an opponent ends the game.
C10_RewardExactlyOnce ==
    obs.kind = "tick" =>
        /\ obs.credited = obs.owed
        /\ state = "game_over" =>
              \A h \in Hits :
                  ~(h.target # "player" /\ h.state0 # "DEAD" /\ h.state1 = "DEAD")

\* C10 fails: the player killed an opponent in the tick in which it died
\* itself; the game is over and the opponent's reward was not credited
C10_KillNeverCredited ==
    /\ obs.kind = "tick" /\ state = "game_over" /\ ~won
    /\ player.state = "DEAD" /\ player.score = obs.score0 + obs.owed
    /\ \E h \in Hits : h.target # "player" /\ h.state0 # "DEAD" /\ h.state1 = "DEAD"

\* C11: a hit of amount a on a non-invincible opponent takes a \div 3 of its
\* health (not more than it has) when the opponent is blocking and its
\* archetype can block, and the full a otherwise.  Blocking is what the
\* source tests: Enemy.blocking in 2d, the state BLOCKING in sh.
C11_BlockedHitTakesThird ==
    \A h \in Hits :
        (h.target # "player" /\ h.inv0 = 0) =>
            h.health1 = Max(0, h.health0 - (IF h.blocked THEN h.amount \div 3
                                                       ELSE h.amount))

\* C11 is exercised: a blocking opponent took 11 of a punch of 35
C11_PunchBlocked ==
    \E h \in Hits :
        /\ h.target # "player" /\ h.inv0 = 0 /\ h.blocked
        /\ h.amount = 35 /\ h.health1 = h.health0 - 11

\* the step handles the key of an attack intent: "punch", "kick" or "throw"
Intent(kind) == obs'.kind = kind /\ obs'.events = obs.events + 1

\* the cooldown of an attack kind
CooldownOf(p, kind) ==
    CASE kind = "punch" -> p.punch_cd
      [] kind = "kick" -> p.kick_cd
      [] kind = "throw" -> p.batarang_cd

\* the step started the attack of that kind: the attack timer and the
\* cooldown are set, and a throw added its batarang to the projectiles
Fires(kind) ==
    LET s == PLAYER_STATS(variant)
    IN CASE kind = "punch" ->
              /\ player'.current_attack = "PUNCH"
              /\ player'.attack_duration = s.PUNCH_DURATION
              /\ player'.punch_cd = s.PUNCH_COOLDOWN
              /\ projectiles' = projectiles
         [] kind = "kick" ->
              /\ player'.current_attack = "KICK"
              /\ player'.attack_duration = s.KICK_DURATION
              /\ player'.kick_cd = s.KICK_COOLDOWN
              /\ projectiles' = projectiles
         [] kind = "throw" ->
              /\ player'.current_attack = "BATARANG"
              /\ player'.attack_duration = s.BATARANG_DURATION
              /\ player'.batarang_cd = s.BATARANG_COOLDOWN
              /\ Len(projectiles') = Len(projectiles) + 1
              /\ projectiles'[Len(projectiles')].from_player

\* the update that follows an intent takes one off each running cooldown
\* (a player that lost a life in it, or that starts the next level, starts
\* again with its cooldowns at 0)
DecrementFollows ==
    (obs.kind \in {"punch", "kick", "throw"} /\ obs'.kind = "tick"
       /\ player'.lives = player.lives /\ player.state # "DEAD"
       /\ state' = "playing" /\ level' = level) =>
        /\ player'.punch_cd = Max(0, player.punch_cd - 1)
        /\ player'.kick_cd = Max(0, player.kick_cd - 1)
        /\ player'.batarang_cd = Max(0, player.batarang_cd - 1)

\* C12 (amended): a punch or kick intent handled while that kind's cooldown
\* is 0 and no attack is active fires, and a throw intent handled while the
\* batarang cooldown is 0 fires; an intent handled while its cooldown is 1
\* does not fire and leaves the player and the projectiles unchanged.  The
\* intents are handled before the update that decrements the cooldowns.
C12_IntentFiresWhenReady ==
    [][/\ \A kind \in {"punch", "kick", "throw"} :
             Intent(kind) =>
                 /\ (CooldownOf(player, kind) = 0
                       /\ (kind = "throw" \/ player.attack_duration = 0)) => Fires(kind)
                 /\ CooldownOf(player, kind) = 1 =>
                       (player' = player /\ projectiles' = projectiles)
       /\ DecrementFollows]_vars

\* C12 (as claimed): every intent handled while its cooldown is 0 fires
C12_IntentFiresAtZeroCooldown ==
    [][/\ \A kind \in {"punch", "kick", "throw"} :
             Intent(kind) =>
                 /\ CooldownOf(player, kind) = 0 => Fires(kind)
                 /\ CooldownOf(player, kind) = 1 =>
                       (player' = player /\ projectiles' = projectiles)
       /\ DecrementFollows]_vars

\* C12 is exercised: a kick intent was handled while the kick cooldown was
\* 1 and no attack was active, and did not fire
C12_KickOneTickEarly ==
    /\ obs.kind = "kick" /\ player.kick_cd = 1
    /\ player.attack_duration = 0 /\ player.current_attack = "NONE"

\* C13 (as claimed): an intent that starts an attack finds that attack's
\* cooldown at 0 and no attack active, and no intent changes the kind or the
\* remaining timer of a punch or kick that is under way; an update in which
\* the player stays alive in the level takes one off the timer and keeps the
\* kind until the timer expires.
C13_AttackNeverReplaced ==
    [][/\ \A kind \in {"punch", "kick", "throw"} :
             Intent(kind) =>
                 /\ (player'.current_attack # player.current_attack
                        \/ player'.attack_duration # player.attack_duration) =>
                       (CooldownOf(player, kind) = 0 /\ player.attack_duration = 0)
                 /\ (player.current_attack \in {"PUNCH", "KICK"}
                        /\ player.attack_duration > 0) =>
                       /\ player'.current_attack = player.current_attack
                       /\ player'.attack_duration = player.attack_duration
       /\ (obs'.kind = "tick" /\ state' = "playing" /\ level' = level
             /\ player'.lives = player.lives /\ player'.state # "DEAD"
             /\ player.current_attack \in {"PUNCH", "KICK"}
             /\ player.attack_duration > 1) =>
               /\ player'.current_attack = player.current_attack
               /\ player'.attack_duration = player.attack_duration - 1]_vars

\* C13 fails: a throw intent was handled while a punch was under way (its
\* cooldown shows that it started fewer ticks ago than a punch lasts), and
\* the batarang throw has replaced it
C13_ThrowReplacedPunch ==
    /\ obs.kind = "throw"
    /\ player.current_attack = "BATARANG"
    /\ player.attack_duration = PLAYER_STATS(variant).BATARANG_DURATION
    /\ player.punch_cd > Max(0, PLAYER_STATS(variant).PUNCH_COOLDOWN
                                  - PLAYER_STATS(variant).PUNCH_DURATION)
    /\ player.kick_cd = 0

\* the states in which the player is attacking
AttackStates == {"ATTACKING", "PUNCHING", "KICKING", "THROWING"}

\* C14 (as claimed): at the end of a tick the player is in an attacking
\* state only while an attack is current: once the attack timer has reached
\* 0 the state is no longer an attacking one.
C14_AttackStateEndsWithAttack ==
    (obs.kind = "tick" /\ player.state \in AttackStates) =>
        player.current_attack # "NONE"

\* C14 fails: the timer of a kick ran out in this tick (the kick cooldown
\* shows that the kick started as many ticks ago as a kick lasts), no attack
\* is current, and the player is still in the attacking state
C14_StillAttackingAfterExpiry ==
    /\ obs.kind = "tick" /\ state = "playing"
    /\ player.current_attack = "NONE" /\ player.attack_duration = 0
    /\ player.state \in {"ATTACKING", "KICKING"}
    /\ player.kick_cd = PLAYER_STATS(variant).KICK_COOLDOWN
                          - PLAYER_STATS(variant).KICK_DURATION
    /\ player.punch_cd = 0 /\ player.batarang_cd = 0

\* C15 (as claimed): at the end of every tick a combo timer of 0 goes with
\* a combo count of 0, and no melee hit of the player had its damage
\* computed from a combo count whose timer had run out.
C15_NoExpiredCombo ==
    obs.kind = "tick" =>
        /\ player.combo_timer = 0 => player.combo = 0
        /\ \A h \in Hits :
              (h.target # "player" /\ h.src = "melee" /\ h.combo0 > 0) => h.timer0 > 0

\* C15 fails: the combo timer ran out in this tick, and the punch that
\* landed in it was still computed with the bonus of combo count 2 (45
\* instead of 35)
C15_BonusAfterExpiry ==
    /\ obs.kind = "tick"
    /\ \E h \in Hits :
          /\ h.target # "player" /\ h.src = "melee" /\ h.attack = "PUNCH"
          /\ h.timer0 = 0 /\ h.combo0 = 2 /\ h.amount = 45

\* C16: every update of an active projectile adds exactly |velocity_x|, which
\* is more than 0, to the distance travelled; a projectile that is inactive
\* stays as it is (active goes from true to false at most once); and an
\* update leaves the projectile inactive exactly when the distance travelled
\* now exceeds max_distance, which it did not before.
C16_FlightCountsDistance ==
    [][LET pr == projectiles[1]
           q == projectiles'[1]
       IN /\ ~pr.active => (q = pr)
          /\ (obs'.kind = "fly" /\ pr.active) =>
                /\ Abs(pr.vx) > 0
                /\ q.traveled = pr.traveled + Abs(pr.vx)
                /\ pr.traveled <= Px(pr.max_dist)
                /\ q.active <=> (q.traveled <= Px(q.max_dist))]_vars

\* C16 is exercised: the update that took a projectile of range 400 px
\* beyond its range, by less than one step, has deactivated it
C16_FlownOut ==
    /\ obs.kind = "fly" /\ ~projectiles[1].active
    /\ projectiles[1].max_dist = 400
    /\ projectiles[1].traveled > Px(400)
    /\ projectiles[1].traveled - Abs(projectiles[1].vx) <= Px(400)

\* C17 (as claimed): at the end of every tick the projectile list holds
\* only active projectiles: one deactivated in the tick, by its range or by
\* a hit, is no longer in it.
C17_OnlyActiveProjectilesListed ==
    obs.kind = "tick" =>
        \A i \in 1..Len(projectiles) : projectiles[i].active

\* C17 fails: the batarang that hit an opponent in this tick was
\* deactivated and is still in the list at the end of the tick
C17_SpentBatarangListed ==
    /\ obs.kind = "tick" /\ state = "playing"
    /\ \E h \in Hits : h.target # "player" /\ h.src = "projectile"
    /\ \E i \in 1..Len(projectiles) :
          projectiles[i].from_player /\ ~projectiles[i].active

\* the projectile hits of the tick the step takes
ShotHits == { h \in {obs'.hits[i] : i \in 1..Len(obs'.hits)} : h.src = "projectile" }

OpponentAttackRect(i) ==
    IF variant = "sh" THEN HenchmanAttackRect(enemies[i]) ELSE EnemyAttackRect(enemies[i])

\* the hits of the tick on a target by a source
HitsOn(target, src) ==
    {i \in 1..Len(obs.hits) : obs.hits[i].target = target /\ obs.hits[i].src = src}

\* C19: dead opponents take part in no collision test.  Every hit of a tick
\* on an opponent, by a projectile or by the player's melee attack, found
\* its target alive (so no dead opponent absorbs a projectile or counts for
\* the combo), and the player took no more melee hits than there are living
\* opponents with an attack rectangle at the end of the tick.
C19_DeadOpponentsExcluded ==
    obs.kind = "tick" =>
        /\ \A h \in Hits :
              h.target # "player" => (h.state0 # "DEAD" /\ h.health0 > 0)
        /\ Cardinality(HitsOn("player", "enemy_melee"))
              <= Cardinality({i \in 1..Len(enemies) :
                                /\ enemies[i].state # "DEAD"
                                /\ OpponentAttackRect(i) # NoRect})
        /\ Cardinality(HitsOn("player", "villain_melee"))
              <= IF villain.state \notin {"NONE", "DEAD"}
                    /\ VillainAttackRect(villain, configs) # NoRect
                 THEN 1 ELSE 0

\* C19 is exercised: the opponent that the player's melee attack killed in
\* this tick has its attack rectangle on the player, who took no hit
C19_KilledWhileStriking ==
    /\ obs.kind = "tick" /\ player.invincibility = 0
    /\ \A h \in Hits : h.target # "player"
    /\ \E h \in Hits : h.src = "melee" /\ h.state0 # "DEAD" /\ h.state1 = "DEAD"
    /\ \E i \in 1..Len(enemies) :
          /\ enemies[i].state = "DEAD"
          /\ colliderect(OpponentAttackRect(i), get_rect(player))

\* C20 (as claimed): an actor that is DEAD has no attack and no combo left
\* (they were cleared when its health reached 0), and after a projectile has
\* killed the player no melee hit of the player follows in that tick.
C20_DeathClearsAttack ==
    obs.kind = "tick" =>
        /\ \A p \in {player} \cup {obs.pre_death[i] : i \in 1..Len(obs.pre_death)} :
              p.state = "DEAD" =>
                  (p.current_attack = "NONE" /\ p.attack_duration = 0 /\ p.combo = 0)
        /\ \A i \in 1..Len(enemies) :
              enemies[i].state = "DEAD" => enemies[i].current_attack = "NONE"
        /\ \A i, j \in 1..Len(obs.hits) :
              (i < j /\ obs.hits[i].target = "player" /\ obs.hits[i].src = "projectile"
                     /\ obs.hits[i].state1 = "DEAD")
                 => ~(obs.hits[j].target # "player" /\ obs.hits[j].src = "melee")

\* C20 fails: a projectile killed the player in this tick, and the melee
\* attack the dead player still had under way then hit an opponent, took
\* health from it and was registered as a combo hit
C20_DeadPlayerLandsPunch ==
    /\ obs.kind = "tick"
    /\ \E i, j \in 1..Len(obs.hits) :
          /\ i < j
          /\ obs.hits[i].target = "player" /\ obs.hits[i].src = "projectile"
          /\ obs.hits[i].state0 # "DEAD" /\ obs.hits[i].state1 = "DEAD"
          /\ obs.hits[j].target # "player" /\ obs.hits[j].src = "melee"
          /\ obs.hits[j].health1 < obs.hits[j].health0
          /\ obs.hits[j].combo0 = 0
    /\ \E p \in {player} \cup {obs.pre_death[i] : i \in 1..Len(obs.pre_death)} :
          p.state = "DEAD" /\ p.combo = 1 /\ p.current_attack \in {"PUNCH", "KICK"}

\* the timer a punch or kick of the player starts with
DurationOf(kind) ==
    IF kind = "PUNCH" THEN PLAYER_STATS(variant).PUNCH_DURATION
    ELSE PLAYER_STATS(variant).KICK_DURATION

\* C21 (as claimed): the hitbox of the player's punch or kick is live only
\* during a proper part of its timer: for the attack under way there is a
\* timer value, among those the melee resolution meets while the attack is
\* active, at which the attack has no rectangle.
C21_HitboxHasActiveWindow ==
    (obs.kind = "tick" /\ player.current_attack \in {"PUNCH", "KICK"}
       /\ player.attack_duration > 0) =>
        \E n \in 1..(DurationOf(player.current_attack) - 1) :
            PlayerAttackRect(variant, [player EXCEPT !.attack_duration = n]) = NoRect

\* C21 fails: in the last tick of a punch (timer 1) the attack rectangle is
\* there, as it is in the first tick and in every tick between
C21_LiveToTheLastTick ==
    /\ obs.kind = "tick" /\ state = "playing"
    /\ player.current_attack = "PUNCH" /\ player.attack_duration = 1
    /\ \A n \in 1..(DurationOf("PUNCH") - 1) :
          PlayerAttackRect(variant, [player EXCEPT !.attack_duration = n]) # NoRect

\* C22 (as claimed): in every state of the variant with lives, the player's
\* last safe position is a grounded one: placed there, the player's lower
\* edge is on the ground.
C22_LastSafeIsGrounded ==
    (variant = "sh" /\ player.state # "NONE") =>
        player.last_safe_y + Px(player.height) = Px(CONFIG(variant).GROUND_LEVEL)

\* C22 fails: the level has just begun and the last safe position is the
\* point where the player was created, 25 px above the ground
C22_LastSafeInMidAir ==
    /\ variant = "sh" /\ state = "playing" /\ obs.kind = "intro"
    /\ player.state # "DEAD"
    /\ player.last_safe_x = player.x /\ player.last_safe_y = player.y
    /\ player.last_safe_y + Px(player.height) = Px(CONFIG(variant).GROUND_LEVEL - 25)

\* C23 (as claimed): when the villain's SPECIAL attack hit the player in
\* this tick, the amount is the archetype's special damage, which is more
\* than its standard melee damage, and a player that was not invincible
\* lost that much health (not more than it had).
C23_SpecialHitsHarder ==
    (obs.kind = "tick" /\ villain.state # "NONE" /\ villain.current_attack = "SPECIAL") =>
        \A h \in Hits :
            h.src = "villain_melee" =>
                /\ h.amount = configs[villain.villain_type].special_damage
                /\ h.amount > configs[villain.villain_type].damage
                /\ h.inv0 = 0 => h.health1 = Max(0, h.health0 - h.amount)

\* C23 fails: Deathstroke's counter hit a player that was not invincible
\* and took nothing from its health, where its standard hit takes 40
C23_CounterDealsNothing ==
    /\ obs.kind = "tick"
    /\ villain.state # "NONE" /\ villain.villain_type = "deathstroke"
    /\ villain.current_attack = "SPECIAL"
    /\ configs["deathstroke"].special_damage = 0 /\ configs["deathstroke"].damage = 40
    /\ \E h \in Hits :
          /\ h.src = "villain_melee" /\ h.inv0 = 0
          /\ h.amount = 0 /\ h.health1 = h.health0

\* C24 (as claimed): Deathstroke launches its counter, a SPECIAL attack,
\* only in the phase whose escalation unlocks it, the third.
C24_CounterOnlyWhenUnlocked ==
    (villain.state # "NONE" /\ villain.villain_type = "deathstroke"
       /\ villain.current_attack = "SPECIAL") => villain.phase = 3

\* C24 fails: Deathstroke, unhurt and in its first phase, has launched a
\* counter in this tick
C24_CounterInFirstPhase ==
    /\ obs.kind = "tick" /\ obs.escalations = 0
    /\ villain.state # "NONE" /\ villain.villain_type = "deathstroke"
    /\ villain.phase = 1 /\ villain.health = villain.max_health
    /\ villain.current_attack = "SPECIAL" /\ villain.attack_frame = 15

\* the bosses of the encounter that are DEAD and still in place: the villain
\* (sh), the boss in Game.enemies (2d)
FallenBosses ==
    (IF villain.state = "DEAD" THEN {0} ELSE {})
    \cup {i \in 1..Len(enemies) : /\ variant = "2d"
                                  /\ ENEMY_CONFIGS[enemies[i].type].is_boss
                                  /\ enemies[i].state = "DEAD"}

\* C25 (as claimed): the terminal checks (player defeated, boss defeated)
\* are the last phase of a tick, after collision resolution: a tick that
\* leaves the game in state "playing" leaves neither a defeated player nor
\* a defeated boss behind.
C25_TerminalChecksComeLast ==
    (obs.kind = "tick" /\ state = "playing") =>
        /\ player.state # "DEAD"
        /\ FallenBosses = {}

\* C25 fails: the boss lost its last health in this tick's collision
\* resolution and the tick ended in state "playing" on the same level, the
\* boss-defeated check having run before the collisions
C25_BossFallsUnnoticed ==
    /\ obs.kind = "tick" /\ state = "playing" /\ ~won
    /\ FallenBosses # {}
    /\ obs.credited = 0 /\ player.score = obs.score0
    /\ \E h \in Hits : /\ h.target \in {"villain", "enemy"}
                       /\ h.health0 > 0 /\ h.health1 = 0

\* the place of a hit's source in the order of collision resolution
SrcRank(src) ==
    CASE src = "projectile" -> 1
      [] src = "melee" -> 2
      [] OTHER -> 3

\* the hits of this tick that took health from the player
PlayerDamaged == {h \in Hits : h.target = "player" /\ h.health1 < h.health0}

\* C26: the hits of a tick come in the order projectiles, player melee,
\* opponent melee, and the player's melee attack lands whatever happened to
\* the player in the tick: every melee hit on an opponent that was not
\* invincible took the (possibly blocked) damage from its health, and after
\* the tick no opponent under the player's live melee rectangle is left
\* alive and untouched (it is DEAD or in the invincibility a hit starts).
C26_MeleeLandsDespiteDamage ==
    obs.kind = "tick" =>
        /\ \A i, j \in 1..Len(obs.hits) :
               i < j => SrcRank(obs.hits[i].src) <= SrcRank(obs.hits[j].src)
        /\ \A h \in Hits :
               (h.src = "melee" /\ h.inv0 = 0) =>
                   /\ h.health1 < h.health0
                   /\ h.health1 = Max(0, h.health0 - (IF h.blocked THEN h.amount \div 3
                                                      ELSE h.amount))
        /\ LET rect == PlayerAttackRect(variant, player) IN
           rect # NoRect =>
               /\ (villain.state # "NONE" /\ colliderect(rect, get_rect(villain)))
                      => (villain.state = "DEAD" \/ villain.invincibility > 0)
               /\ \A i \in 1..Len(enemies) :
                      colliderect(rect, get_rect(enemies[i]))
                          => (enemies[i].state = "DEAD" \/ enemies[i].invincibility > 0)

\* C26 is exercised: the player lost health to a projectile in the tick in
\* which its own melee attack, resolved after the projectiles, took health
\* from an opponent
C26_HitWhileHitting ==
    /\ obs.kind = "tick"
    /\ \E h \in PlayerDamaged : h.src = "projectile"
    /\ \E h \in Hits : h.src = "melee" /\ h.inv0 = 0 /\ h.health1 < h.health0

\* the melee hits of this tick that took health from their target
MeleeDamage == {h \in Hits : h.src # "projectile" /\ h.health1 < h.health0}

\* how long the opponents' attacks that are under way will still last
OpponentAttackLeft ==
    (IF villain.state \in {"NONE", "DEAD"} THEN {} ELSE {villain.attack_frame})
    \cup {enemies[i].attack_frame : i \in 1..Len(enemies)}

\* C27: one activation of a melee attack takes health from a given target
\* at most once.  Within a tick the player loses health to at most one hit,
\* the villain to at most one melee hit, and the henchmen or enemies to no
\* more melee hits than there are of them; and a target that lost health to
\* a melee hit is left invincible for at least as long as the attack that
\* hit it stays live, so that the overlap tests of the following ticks do
\* nothing.  The attack timer of the player only runs down during a tick.
C27_OneHitPerActivation ==
    /\ [](obs.kind = "tick" =>
            /\ Cardinality({i \in 1..Len(obs.hits) :
                               /\ obs.hits[i].target = "player"
                               /\ obs.hits[i].health1 < obs.hits[i].health0}) <= 1
            /\ Cardinality(HitsOn("villain", "melee")) <= 1
            /\ Cardinality(HitsOn("enemy", "melee")) <= Len(enemies)
            /\ \A h \in MeleeDamage :
                   /\ h.src = "melee" => h.inv1 >= player.attack_duration
                   /\ h.src # "melee" => \A left \in OpponentAttackLeft : h.inv1 >= left)
    /\ [][obs'.kind = "tick" =>
              player'.attack_duration <= Max(0, player.attack_duration - 1)]_vars

\* C27 is exercised: the player's attack, still live after this tick, took
\* health from two opponents in this tick, each of them once
C27_TwoOpponentsOneAttack ==
    /\ obs.kind = "tick"
    /\ PlayerAttackRect(variant, player) # NoRect
    /\ Cardinality(HitsOn("villain", "melee") \cup HitsOn("enemy", "melee")) = 2
    /\ \A h \in Hits : h.src = "melee" => (h.health1 < h.health0 /\ h.inv1 = 30)

\* the opponents that are Blocking: the state BLOCKING (either game), the
\* flag Enemy.blocking that reduces the damage in 2d
Blockers ==
    (IF villain.state = "BLOCKING" THEN {0} ELSE {})
    \cup {i \in 1..Len(enemies) : /\ variant = "2d"
                                  /\ (enemies[i].blocking \/ enemies[i].state = "BLOCKING")}

\* the opponents whose damage is reduced to a third
Reduced ==
    (IF villain.state = "BLOCKING" /\ configs[villain.villain_type].can_block
     THEN {0} ELSE {})
    \cup {i \in 1..Len(enemies) : /\ variant = "2d"
                                  /\ enemies[i].blocking
                                  /\ ENEMY_CONFIGS[enemies[i].type].can_block}

\* C28 (as claimed): an opponent enters Blocking only if its archetype can
\* block and only in a tick in which the player's attack is active, and more
\* than one decision cycle (30 ticks) after the player's punch has ended no
\* opponent is Blocking any more.
C28_BlockingEndsWithinCycle ==
    /\ []((ticks > PLAYER_STATS(variant).PUNCH_DURATION + AI_CYCLE /\ player.attack_duration = 0)
            => Blockers = {})
    /\ [][(level' = level /\ Blockers' \ Blockers # {})
             => (player.attack_duration > 1 /\ Reduced' \ Blockers = Blockers' \ Blockers)]_vars

\* C28 fails: 31 ticks after the punch ended the villain still is in the
\* state BLOCKING it entered during the punch, and a hit would be reduced
C28_StillBlocking ==
    /\ variant = "sh" /\ state = "playing"
    /\ ticks = PLAYER_STATS_SH.PUNCH_DURATION + AI_CYCLE + 1
    /\ player.attack_duration = 0 /\ player.current_attack = "NONE"
    /\ Reduced = {0}

\* an opponent as its constructor leaves it, as far as a fight can change it
Unfought(e) ==
    /\ e.health = e.max_health /\ e.state = "IDLE" /\ e.invincibility = 0
    /\ e.current_attack = "NONE" /\ e.attack_frame = 0 /\ e.attack_cooldown = 0
    /\ e.vx = 0

\* C29: the tick that processes the death of a boss that is not the last
\* replaces the encounter as a whole.  After it the level index is one
\* higher and the intro runs; no projectile and no pickup is left; the
\* opponents are the new level's (its villain or boss, its henchmen), none
\* of them touched; the player is the one start_level builds, at full
\* health, with the old player's score plus the rewards of the opponents
\* that lay dead, and (sh) the old player's lives; and the tick applied no
\* hit.
C29_EncounterReplaced ==
    [][(obs'.kind = "tick" /\ state = "playing" /\ FallenBosses # {}
          /\ level + 1 < NumLevels(variant))
       => /\ level' = level + 1 /\ state' = "level_intro" /\ ~won'
          /\ projectiles' = <<>> /\ pickups' = <<>>
          /\ player' = [Player(variant, Px(100),
                               Px(CONFIG(variant).GROUND_LEVEL
                                  - (IF variant = "sh" THEN 120 ELSE 100)))
                           EXCEPT !.score = player.score + obs'.owed,
                                  !.lives = IF variant = "sh" THEN player.lives ELSE @]
          /\ player'.health = player'.max_health
          /\ obs'.hits = <<>> /\ obs'.credited = obs'.owed
          /\ \A i \in 1..Len(enemies') : Unfought(enemies'[i])
          /\ IF variant = "sh"
             THEN /\ villain'.villain_type = VILLAIN_ORDER[level' + 1]
                  /\ Unfought(villain')
                  /\ \A i \in 1..Len(enemies') :
                         enemies'[i].villain_type = villain'.villain_type
             ELSE /\ villain' = NoVillain
                  /\ Len(enemies') >= 1
                  /\ \A i \in 1..Len(enemies') :
                         enemies'[i].type =
                             IF i = Len(enemies') THEN LEVEL_CONFIGS[level' + 1].boss_type
                             ELSE enemies'[i].type
                  /\ \A i \in 1..(Len(enemies') - 1) :
                         enemies'[i].type \in LEVEL_CONFIGS[level' + 1].henchman_types]_vars

\* C29 is exercised: a tick has replaced an encounter in which a boss lay
\* dead; the new level's intro runs and the fresh player carries the score
C29_NextLevelStarted ==
    /\ obs.kind = "tick" /\ state = "level_intro" /\ level > 0
    /\ obs.owed > 0 /\ obs.credited = obs.owed
    /\ player.score = obs.score0 + obs.owed
    /\ player.health = player.max_health /\ player.x = Px(100)
    /\ projectiles = <<>> /\ pickups = <<>>

\* C30 (as claimed): the tick that processes the death of the last boss
\* ends in state "game_over" with won = TRUE, whatever its later phases
\* do; and once the game is over, won and the state change with a restart
\* only, so that neither a victory becomes a defeat nor a defeat a victory.
C30_OutcomeIsFinal ==
    /\ [][(obs'.kind = "tick" /\ state = "playing" /\ FallenBosses # {}
             /\ level + 1 >= NumLevels(variant))
          => (state' = "game_over" /\ won')]_vars
    /\ [][(state = "game_over" /\ obs'.kind # "restart")
          => (state' = "game_over" /\ won' = won)]_vars

\* C30 fails: the tick credited the last boss's death, which sets won and
\* ends the game, and its death check then found the player dead with no
\* life to spend: the game is over with won = FALSE
C30_VictoryTurnedDefeat ==
    /\ obs.kind = "tick" /\ state = "game_over" /\ ~won
    /\ level + 1 = NumLevels(variant)
    /\ obs.owed > 0 /\ obs.credited = obs.owed
    /\ villain.state \in {"NONE", "DEAD"}
    /\ obs.death = "over" /\ player.state = "DEAD"

\* the mobile actors present: the player, the villain, the henchmen or enemies
Actors ==
    (IF player.state = "NONE" THEN {} ELSE {player})
    \cup (IF villain.state = "NONE" THEN {} ELSE {villain})
    \cup {enemies[i] : i \in 1..Len(enemies)}

\* actor a is inside the world, not below the ground, not faster downwards
\* than the terminal velocity, and at rest vertically when on the ground
InWorld(a) ==
    /\ 0 <= a.x /\ a.x <= Px(CONFIG(variant).LEVEL_WIDTH - a.width)
    /\ a.y + Px(a.height) <= Px(CONFIG(variant).GROUND_LEVEL)
    /\ a.vy <= Px(20)
    /\ a.y + Px(a.height) = Px(CONFIG(variant).GROUND_LEVEL) => a.vy = 0

\* C31: at the end of every tick every actor is inside the world
\* (0 <= x <= LEVEL_WIDTH - width), its lower edge is not below the ground,
\* its vertical speed is at most 20, and an actor on the ground has vy = 0.
C31_ActorsInWorld ==
    obs.kind = "tick" => \A a \in Actors : InWorld(a)

\* C31 is exercised: after this tick the player stands at the left edge of
\* the world or an opponent at the right edge, held there by the clamp
\* while its speed points outwards
C31_HeldAtTheEdge ==
    /\ obs.kind = "tick"
    /\ \E a \in Actors :
          \/ a.x = 0 /\ a.vx < 0
          \/ a.x = Px(CONFIG(variant).LEVEL_WIDTH - a.width) /\ a.vx > 0

\* C32: the jumps left stay within 0..MAX_JUMPS.  A jump key with a jump
\* left sets vy to JUMP_POWER when all jumps are left and to
\* DOUBLE_JUMP_POWER otherwise, and takes one jump; with none left it
\* changes nothing of the player.  No other key changes the count, and a
\* tick on the same level changes it only by restoring it to MAX_JUMPS
\* when the player has landed (on the ground, vy = 0, unless it died in
\* that tick).
C32_JumpsAreCounted ==
    /\ [](player.state # "NONE" =>
             (0 <= player.jumps_left /\ player.jumps_left <= PLAYER_STATS(variant).MAX_JUMPS))
    /\ [][obs'.kind = "jump" =>
             IF player.jumps_left > 0
             THEN /\ player'.jumps_left = player.jumps_left - 1
                  /\ player'.vy = IF player.jumps_left = PLAYER_STATS(variant).MAX_JUMPS
                                  THEN PLAYER_STATS(variant).JUMP_POWER
                                  ELSE PLAYER_STATS(variant).DOUBLE_JUMP_POWER
                  /\ player'.vy < 0
                  /\ PLAYER_STATS(variant).JUMP_POWER < PLAYER_STATS(variant).DOUBLE_JUMP_POWER
             ELSE player' = player]_vars
    /\ [][(obs'.kind \in {"punch", "kick", "throw", "pause", "resume"})
             => player'.jumps_left = player.jumps_left]_vars
    /\ [][(obs'.kind = "tick" /\ level' = level /\ state = "playing"
              /\ player'.jumps_left # player.jumps_left)
             => /\ player'.jumps_left = PLAYER_STATS(variant).MAX_JUMPS
                /\ obs'.death = "none" =>
                      (is_on_ground(variant, player') /\ player'.vy = 0)]_vars

\* C32 is exercised: the jump key was pressed with no jump left, after the
\* second jump, and the player goes on falling as before
C32_ThirdJumpRefused ==
    /\ obs.kind = "jump" /\ state = "playing"
    /\ player.jumps_left = 0 /\ player.vy > 0
    /\ ~is_on_ground(variant, player)

\* the cooldown and timer counters an actor may have
CounterNames ==
    {"punch_cd", "kick_cd", "batarang_cd", "attack_duration", "combo_timer",
     "invincibility", "attack_cooldown", "projectile_cooldown", "special_cooldown",
     "attack_frame"}

\* the counters of actor a
CountersOf(a) == CounterNames \cap DOMAIN a

\* the values the player may have written to its counter f in the tick that
\* ended in the next state: a hit it took while not invincible starts its
\* invincibility and stops its combo, a hit it registered restarts the combo
\* timer, a respawn starts its invincibility and clears its combo and attack
PlayerWrote(f) ==
    LET took == \E i \in 1..Len(obs'.hits) :
                    obs'.hits[i].target = "player" /\ obs'.hits[i].inv0 = 0
        gave == \E i \in 1..Len(obs'.hits) : obs'.hits[i].target # "player"
        back == obs'.death = "respawn"
    IN CASE f = "invincibility" ->
              (IF took THEN {PLAYER_STATS(variant).HIT_INVINCIBILITY} ELSE {})
              \cup (IF back THEN {PLAYER_STATS(variant).RESPAWN_INVINCIBILITY} ELSE {})
         [] f = "combo_timer" ->
              (IF took \/ back THEN {0} ELSE {})
              \cup (IF gave THEN {PLAYER_STATS(variant).COMBO_WINDOW} ELSE {})
         [] f = "attack_duration" -> IF back THEN {0} ELSE {}
         [] OTHER -> {}

\* the values opponent a, now b, may have written to its counter f in the
\* tick that ended in the next state: an attack it started sets its attack
\* frame (in 2d one tick of it is already spent) and an attack or a shot,
\* open to it only once the cooldown has run out, the cooldown; a hit it
\* took, open only once its invincibility has run out, the invincibility
OpponentWrote(a, b, f) ==
    CASE f = "attack_frame" ->
           IF b.current_attack = "NONE" THEN {}
           ELSE IF variant = "2d" THEN {14}
           ELSE IF "villain_type" \in DOMAIN a /\ "phase" \notin DOMAIN a
                THEN {HENCHMAN_SH.attack_frames}
                ELSE {15, 25}
      [] f = "invincibility" -> IF a[f] = 1 THEN {30} ELSE {}
      [] OTHER -> IF a[f] = 1 THEN {n \in 1..400 : TRUE} ELSE {}

\* the opponents before and after a tick, paired by their places
OpponentPairs ==
    (IF villain.state = "NONE" THEN {} ELSE {<<villain, villain'>>})
    \cup (IF Len(enemies') = Len(enemies)
          THEN {<<enemies[i], enemies'[i]>> : i \in 1..Len(enemies)} ELSE {})

\* C33: every cooldown and timer counter of every actor is >= 0 in every
\* state, and in a tick played on one level every positive counter of an
\* actor alive at its start is 1 less at its end, unless its owner wrote
\* a new value to it in that tick.
C33_CountersRunDown ==
    /\ [](\A a \in Actors : \A f \in CountersOf(a) : a[f] >= 0)
    /\ [][(obs'.kind = "tick" /\ state = "playing" /\ level' = level)
             => /\ \A f \in CountersOf(player) :
                      player[f] > 0 =>
                          \/ player'[f] = player[f] - 1
                          \/ player'[f] \in PlayerWrote(f)
                /\ \A pr \in OpponentPairs : \A f \in CountersOf(pr[1]) :
                      (pr[1].state # "DEAD" /\ pr[1][f] > 0) =>
                          \/ pr[2][f] = pr[1][f] - 1
                          \/ pr[2][f] \in OpponentWrote(pr[1], pr[2], f)]_vars

\* C33 is exercised: after this tick an attack of a living opponent is in
\* progress while its special or projectile cooldown is running, and the
\* player is invincible with a cooldown of its own running
C33_CountersRunning ==
    /\ obs.kind = "tick" /\ state = "playing" /\ ticks > 0
    /\ \E a \in Actors :
          /\ a.state # "DEAD" /\ "attack_frame" \in DOMAIN a
          /\ a.attack_frame > 0 /\ a.attack_frame \notin {12, 14, 15, 25}
          /\ \E f \in {"special_cooldown", "projectile_cooldown"} \cap DOMAIN a : a[f] > 1
    /\ player.state # "DEAD"
    /\ player.invincibility > 0

\* the ticks an active projectile has left before its range ends it and
\* the tick after, in which a projectile ended by a hit is taken off the list
FlightLeft(f) == (Px(f.max_dist) - f.traveled) \div Abs(f.vx) + 2

\* the projectiles of the player (b = TRUE) or of the opponents in the list
Flying(b) == {i \in 1..Len(projectiles) : projectiles[i].from_player = b}

\* the game is no longer played, so that no further tick comes
Stopped == state # "playing"

Landed == {i \in 1..Len(obs'.hits) :
              /\ obs'.hits[i].target # "player"
              /\ obs'.hits[i].health1 < obs'.hits[i].health0}

\* C35: the player's combo count grows only by hits that reduced the health
\* of an opponent: over a tick played on one level it grows by at most the
\* number of such hits, so by nothing where the player's attack or
\* batarang only overlapped an opponent still invincible from an earlier
\* hit.
C35_ComboCountsLandedHits ==
    [][(obs'.kind = "tick" /\ state = "playing" /\ level' = level)
          => player'.combo <= player.combo + Cardinality(Landed)]_vars

\* C35 fails here: in this tick the player's punch or kick overlapped an
\* opponent that was still invincible from an earlier hit; take_damage
\* changed nothing, and the call counted as a combo hit all the same
C35_ComboFromInvincibleOverlap ==
    /\ obs.kind = "tick" /\ state = "playing"
    /\ \A h \in Hits : h.target # "player"
    /\ Len(obs.hits) = 1
    /\ \E h \in Hits :
          /\ h.src = "melee" /\ h.inv0 > 0 /\ h.same
          /\ h.combo0 > 0 /\ player.combo = h.combo0 + 1

\* C36: an opponent alive through a tick played on one level whose attack
\* is still active when its AI runs (attack_frame > 1 when the tick begins)
\* starts no other attack: it has the same current_attack after the tick,
\* with one frame less.  And when Killer Croc starts its grab in a tick,
\* the grab is its attack at the end of that tick.
C36_ActiveAttackIsKept ==
    [][(obs'.kind = "tick" /\ state = "playing" /\ level' = level)
          => \A pr \in OpponentPairs :
                (pr[1].state # "DEAD" /\ pr[2].state # "DEAD") =>
                   /\ pr[1].attack_frame > 1 =>
                         /\ pr[2].current_attack = pr[1].current_attack
                         /\ pr[2].attack_frame = pr[1].attack_frame - 1
                   /\ ("special_cooldown" \in DOMAIN pr[1]
                         /\ pr[1].villain_type = "croc"
                         /\ pr[2].special_cooldown > pr[1].special_cooldown)
                        => /\ pr[2].current_attack = "SPECIAL"
                           /\ pr[2].attack_frame = 25]_vars

\* C36 fails here: in this tick Killer Croc started its grab (its special
\* cooldown is fresh) and, in the same update, a punch or a kick in its
\* place: the grab was over before the collisions of the tick
C36_GrabReplacedAtOnce ==
    /\ obs.kind = "tick" /\ state = "playing" /\ variant = "sh"
    /\ villain.state \notin {"NONE", "DEAD"}
    /\ villain.villain_type = "croc"
    /\ villain.special_cooldown = 120
    /\ villain.current_attack \in {"PUNCH", "KICK"}
    /\ villain.attack_frame = 15
    /\ villain.attack_cooldown = configs["croc"].attack_cooldown

\* C37: the R key in state game_over starts a new game: level index 0, the
\* player's score 0 and, in sh, MAX_LIVES lives, whatever the game before
\* left.
C37_RestartStartsAfresh ==
    [][obs'.kind = "restart"
          => /\ level' = 0
             /\ state' = "level_intro"
             /\ player'.score = 0
             /\ variant = "sh" => player'.lives = PLAYER_STATS_SH.MAX_LIVES]_vars

\* C37 fails here: the game restarted after a defeat is on level 1 with the
\* score of the lost game and no life left
C37_RestartedWithoutLives ==
    /\ obs.kind = "restart" /\ variant = "sh"
    /\ state = "level_intro" /\ level = 0 /\ ~won
    /\ player.lives = 0 /\ player.score > 0
    /\ player.health = player.max_health

\* a step changes nothing of the simulation: no actor, projectile or pickup
\* (and so no cooldown, combo, score or lives value), nor the level,
\* the outcome or the villains' table
Frozen == UNCHANGED <<player, villain, enemies, projectiles, pickups, configs, level, won>>

\* C38: in state title, level_intro, paused or game_over neither an update
\* nor a jump, punch, kick or throw key changes anything of the simulation;
\* an update changes only the intro countdown, by 1, and hands over to
\* "playing" when it reaches 0; the countdown starts at 180 whenever an
\* intro begins and stays within 1..180 during it.  Only steps in state
\* "playing", RETURN on the title screen and R in game_over change the
\* simulation.  Pausing and resuming change the state and nothing else.
C38_OnlyPlayingSimulates ==
    /\ [](state = "level_intro" => (1 <= intro_timer /\ intro_timer <= 180))
    /\ [][(state # "playing" /\ obs'.kind \in {"intro", "idle", "ignored"})
             => /\ Frozen
                /\ IF state = "level_intro" /\ obs'.kind = "intro"
                   THEN /\ intro_timer' = intro_timer - 1
                        /\ state' = IF intro_timer' = 0 THEN "playing" ELSE "level_intro"
                   ELSE /\ intro_timer' = intro_timer
                        /\ state' = state]_vars
    /\ [][(state' = "level_intro" /\ state # "level_intro") => intro_timer' = 180]_vars
    /\ [][~Frozen => (state = "playing" \/ obs'.kind \in {"return", "restart"})]_vars
    /\ [][obs'.kind \in {"pause", "resume"}
             => /\ Frozen /\ intro_timer' = intro_timer
                /\ state = (IF obs'.kind = "pause" THEN "playing" ELSE "paused")
                /\ state' = (IF obs'.kind = "pause" THEN "paused" ELSE "playing")]_vars

\* C38 is exercised: the game was paused with the player's attack in
\* progress, a cooldown running and an opponent alive, an update came while
\* it was paused, and it has been resumed
C38_ResumedAfterIdleTick ==
    /\ obs.kind = "resume" /\ state = "playing" /\ ticks = 1
    /\ player.attack_duration > 0 /\ player.punch_cd > 0
    /\ \E a \in Actors \ {player} : a.state # "DEAD" /\ a.invincibility > 0

=============================================================================
